---- MODULE Spec2Model ----
(***************************************************************************)
(* A model of slang's SourceManager (buffer table, file cache, lazy line   *)
(* offsets, `line directives, include / macro-expansion lineage), of the   *)
(* member-list parser's error recovery and of the syntax printer.          *)
(*                                                                         *)
(* Buffer IDs are 0-based in the code; bufferEntries is a TLA+ sequence,   *)
(* so the entry of ID i is bufferEntries[i + 1] (see Entry).               *)
(***************************************************************************)
EXTENDS Integers, Sequences, FiniteSets, TLC

VARIABLES
    bufferEntries,      \* SourceManager::bufferEntries (FileInfo | ExpansionInfo)
    fileData,           \* every live FileData (userFileBuffers and lookupCache values)
    lookupCache,        \* SourceManager::lookupCache: canonical path -> FileData* (0 = nullptr);
                        \* a function whose domain is the set of cached paths
    userFileLookup,     \* SourceManager::userFileLookup: name -> FileData*
    unnamedBufferCount, \* SourceManager::unnamedBufferCount
    pc,                 \* per thread: where the thread is inside its current call
    frame,              \* per thread: arguments and locals of the current call
    ret,                \* per thread: the result of the last completed call
    calls,              \* per thread: how many more calls the thread will start
    handedOut,          \* history: the buffer IDs returned by buffer-creating calls, in order
    tokens,             \* parser: the preprocessed token stream (ends with EndOfFile)
    pos,                \* parser: index of the current token
    skipped,            \* parser: tokens skipped and not yet attached as trivia
    stack,              \* parser: the open parseMemberList activations, innermost last
    tree,               \* parser: the CompilationUnitSyntax returned (<<>> before that)
    eofToken,           \* parser: Parser::eofToken
    diags,              \* parser: diagnostics issued, in order
    ppc,                \* parser: "off", "start", "list", "parsed" or "printed"
    source,             \* the text handed to the parser
    printed,            \* the string returned by SyntaxPrinter::printFile
    types,              \* type checks: the operand types a, b, c of the relation calls
    verdict,            \* type checks: the last relation call made and what it returned
    qualifiers,         \* checkClassQualifiers: the qualifier tokens passed in
    isConstraint,       \* checkClassQualifiers: its second argument
    qualifierLocals,    \* checkClassQualifiers: its locals, with the index of the next qualifier
    ppInput,            \* preprocessor: the tokens and directives not yet read
    ppState,            \* preprocessor: default net type, unconnected drive, time scale,
                        \* and the depth of its design element stack
    window,             \* parser: the token peeked and not yet consumed (invalid = none)
    moduleLocals,       \* parseModule: where it is, its local "node", and (history) the
                        \* preprocessor's settings when it was entered
    nodeMap,            \* Metadata::nodeMap: the nodes stored, in order
    parentMethod,       \* overriding: the superclass method
    derivedMethod,      \* overriding: the method of the derived class
    prototypes,         \* the method prototypes; prototypes[1] is the one asked about
    outerScope,         \* what the scope around a prototype's parent holds: the member
                        \* found by name and the out-of-block declaration
    compilation,        \* the subroutine symbols created by getSubroutine, in order
    returned,           \* history: what each call of getSubroutine returned
    scopeDiags,         \* the diagnostics added to scopes, in order
    evalExpr,           \* ScriptSession::eval: the conditional expression given to it
    evalValue,          \* ScriptSession::eval: the value it returned (none before the call)
    printerBuffer,      \* SyntaxPrinter::buffer
    appendArg,          \* history: the text given to the last call of append
    appendStatus,       \* "ok", or the exception that left the last call of append
    portList,           \* buildArguments: syntax.ports and defaultLifetime
    buildLocals,        \* buildArguments: lastType, lastDirection and the port it is at
    builtArguments,     \* buildArguments: the arguments appended so far
    argDiags,           \* buildArguments: the diagnostics added to the scope
    memberTokens,       \* member lists: the kinds of the tokens ahead of the end of file
    memberPos,          \* member lists: index of the current token
    memberStack,        \* member lists: the open parseMemberList and parseSingleMember
                        \* activations, innermost last
    moduleDeclStack,    \* Parser::moduleDeclStack: the name sets of nested definitions
    memberLog,          \* history: what each call of a member parser gave and what each
                        \* activation found on its return
    sameExprArgs,       \* isSameExpr: the two syntax trees given to it
    sameExprResult,     \* isSameExpr: what it returned (none before the call)
    classMethodSyntax   \* MethodPrototypeSymbol::fromSyntax: the ClassMethodPrototypeSyntax
                        \* given to it and the class type of its scope

smVars == <<bufferEntries, fileData, lookupCache, userFileLookup, unnamedBufferCount,
            pc, frame, ret, calls, handedOut>>
parseVars == <<tokens, pos, skipped, stack, tree, eofToken, diags, ppc, source, printed>>
typeVars == <<types, verdict>>
qualifierVars == <<qualifiers, isConstraint, qualifierLocals>>
moduleVars == <<ppInput, ppState, window, moduleLocals, nodeMap>>
methodVars == <<parentMethod, derivedMethod, prototypes, outerScope, compilation, returned,
                scopeDiags>>
evalVars == <<evalExpr, evalValue>>
printerVars == <<printerBuffer, appendArg, appendStatus>>
argVars == <<portList, buildLocals, builtArguments, argDiags>>
listVars == <<memberTokens, memberPos, memberStack, moduleDeclStack, memberLog>>
sameExprVars == <<sameExprArgs, sameExprResult>>
protoSyntaxVars == <<classMethodSyntax>>
semVars == <<typeVars, qualifierVars, moduleVars, methodVars, evalVars, printerVars, argVars,
             listVars, sameExprVars, protoSyntaxVars>>
vars == <<bufferEntries, fileData, lookupCache, userFileLookup, unnamedBufferCount,
          pc, frame, ret, calls, handedOut,
          tokens, pos, skipped, stack, tree, eofToken, diags, ppc, source, printed,
          types, verdict, qualifiers, isConstraint, qualifierLocals,
          ppInput, ppState, window, moduleLocals, nodeMap,
          parentMethod, derivedMethod, prototypes, outerScope, compilation, returned,
          scopeDiags, evalExpr, evalValue, printerBuffer, appendArg, appendStatus,
          portList, buildLocals, builtArguments, argDiags,
          memberTokens, memberPos, memberStack, moduleDeclStack, memberLog,
          sameExprArgs, sameExprResult, classMethodSyntax>>

----------------------------------------------------------------------------
(* Bounds of the model *)

NumThreads == 2
MaxCalls == 2
MaxBuffers == 3
MaxTextLen == 3
MaxDirectives == 2
MaxLineNum == 2
MaxOffset == 1

Threads == 1..NumThreads

----------------------------------------------------------------------------
(* Locations *)

Loc(b, o) == [buf |-> b, off |-> o]

\* SourceLocation(): buffer 0, offset 0
DefaultLoc == Loc(0, 0)

\* BufferID::valid / SourceLocation::valid
Valid(l) == l.buf # 0

----------------------------------------------------------------------------
(* Characters and the file system the manager reads from *)

NUL == "NUL"
LF == "\n"
CR == "\r"

\* fs::canonical(path, ec): "" stands for ec set (the path does not resolve)
Canonical(path) ==
    CASE path = "a.sv" -> "/a.sv"
      [] path = "./a.sv" -> "/a.sv"
      [] path = "b.sv" -> "/b.sv"
      [] OTHER -> ""

DiskPaths == {"a.sv", "./a.sv", "b.sv", "gone.sv"}
CanonicalPaths == {"/a.sv", "/b.sv"}

\* What is on disk: /a.sv is a readable file, /b.sv exists but cannot be read
DiskText(abs) == <<"x", LF, "y">>
Readable(abs) == abs = "/a.sv"

\* SourceManager::readFile: the bytes read plus a terminating NUL, or failure
readFile(abs) ==
    IF Readable(abs)
    THEN [ok |-> TRUE, buffer |-> Append(DiskText(abs), NUL)]
    ELSE [ok |-> FALSE, buffer |-> <<>>]

----------------------------------------------------------------------------
(* Buffer entries *)

FileInfo(fd, includedFrom) ==
    [kind |-> "file", data |-> fd, includedFrom |-> includedFrom, lineDirectives |-> <<>>,
     originalLoc |-> DefaultLoc, expansionStart |-> DefaultLoc, isMacroArg |-> FALSE,
     macroName |-> ""]

ExpansionInfo(originalLoc, expansionStart, isMacroArg, macroName) ==
    [kind |-> "expansion", data |-> 0, includedFrom |-> DefaultLoc, lineDirectives |-> <<>>,
     originalLoc |-> originalLoc, expansionStart |-> expansionStart,
     isMacroArg |-> isMacroArg, macroName |-> macroName]

FileData(name, mem) == [name |-> name, mem |-> mem, lineOffsets |-> <<>>]

Entry(id) == bufferEntries[id + 1]

NumEntries == Len(bufferEntries)

\* SourceManager::getFileInfo: TRUE when the buffer is a FileInfo entry
IsFileInfo(b) == b # 0 /\ b < NumEntries /\ Entry(b).kind = "file"

\* SourceBuffer() : id 0, no data
EmptyBuffer == [id |-> 0, fd |-> 0]

BufferIdFromSize(entries) == Len(entries)

\* the ID createBufferEntry / createExpansionLoc return: bufferEntries.size() - 1
NewBufferId(entries) == Len(entries) - 1

\* SourceManager::createBufferEntry (ASSERT(fd) is checked by the callers below)
createBufferEntry(fd, includedFrom) ==
    LET entries == Append(bufferEntries, FileInfo(fd, includedFrom))
    IN  [entries |-> entries, buffer |-> [id |-> NewBufferId(entries), fd |-> fd]]

----------------------------------------------------------------------------
(* Threads and calls *)

IdleFrame ==
    [op |-> "none", path |-> "", name |-> "", loc |-> DefaultLoc, loc2 |-> DefaultLoc,
     num |-> 0, level |-> 0, tmp |-> 0, text |-> <<>>]

NoResult ==
    [op |-> "none", how |-> "", path |-> "", id |-> 0, fd |-> 0, val |-> 0,
     loc |-> DefaultLoc, arg |-> DefaultLoc, steps |-> 0]

CanCall(t) == pc[t] = "idle" /\ calls[t] > 0

Begin(t, label, fr) ==
    /\ pc' = [pc EXCEPT ![t] = label]
    /\ frame' = [frame EXCEPT ![t] = fr]
    /\ calls' = [calls EXCEPT ![t] = @ - 1]

Return(t, r) ==
    /\ pc' = [pc EXCEPT ![t] = "idle"]
    /\ frame' = [frame EXCEPT ![t] = IdleFrame]
    /\ ret' = [ret EXCEPT ![t] = r]

Goto(t, label) == pc' = [pc EXCEPT ![t] = label]

\* The manager after construction: the dummy entry 0, nothing cached; each thread is
\* about to make budget[t] calls
SourceManager(budget) ==
    /\ bufferEntries = <<FileInfo(0, DefaultLoc)>>
    /\ fileData = <<>>
    /\ lookupCache = <<>>
    /\ userFileLookup = <<>>
    /\ unnamedBufferCount = 0
    /\ pc = [t \in Threads |-> "idle"]
    /\ frame = [t \in Threads |-> IdleFrame]
    /\ ret = [t \in Threads |-> NoResult]
    /\ calls = budget
    /\ handedOut = <<>>

ParserIdle ==
    /\ tokens = <<>>
    /\ pos = 0
    /\ skipped = <<>>
    /\ stack = <<>>
    /\ tree = <<>>
    /\ eofToken = <<>>
    /\ diags = <<>>
    /\ ppc = "off"
    /\ source = <<>>
    /\ printed = <<>>

\* No type relation has been asked for.
TypeIdle ==
    /\ types = <<>>
    /\ verdict = <<>>

\* checkClassQualifiers is not running.
QualifiersIdle ==
    /\ qualifiers = <<>>
    /\ isConstraint = FALSE
    /\ qualifierLocals = <<>>

\* parseModule is not running and there is nothing to preprocess.
ModuleIdle ==
    /\ ppInput = <<>>
    /\ ppState = <<>>
    /\ window = <<>>
    /\ moduleLocals = <<>>
    /\ nodeMap = <<>>

\* No method symbol exists.
MethodsIdle ==
    /\ parentMethod = <<>>
    /\ derivedMethod = <<>>
    /\ prototypes = <<>>
    /\ outerScope = <<>>
    /\ compilation = <<>>
    /\ returned = <<>>
    /\ scopeDiags = <<>>

EvalIdle ==
    /\ evalExpr = <<>>
    /\ evalValue = <<>>

PrinterIdle ==
    /\ printerBuffer = <<>>
    /\ appendArg = <<>>
    /\ appendStatus = "ok"

ArgumentsIdle ==
    /\ portList = <<>>
    /\ buildLocals = <<>>
    /\ builtArguments = <<>>
    /\ argDiags = <<>>

\* No member list is being parsed.
MembersIdle ==
    /\ memberTokens = <<>>
    /\ memberPos = 0
    /\ memberStack = <<>>
    /\ moduleDeclStack = <<>>
    /\ memberLog = <<>>

\* isSameExpr is not being asked.
SameExprIdle ==
    /\ sameExprArgs = <<>>
    /\ sameExprResult = <<>>

\* No method prototype is being made from syntax.
ProtoSyntaxIdle == classMethodSyntax = <<>>

\* Every part of the model outside the SourceManager and the member parser is idle,
\* but for the part named.
SemanticsIdleExcept(part) ==
    /\ IF part = "types" THEN TRUE ELSE TypeIdle
    /\ IF part = "qualifiers" THEN TRUE ELSE QualifiersIdle
    /\ IF part = "modules" THEN TRUE ELSE ModuleIdle
    /\ IF part = "methods" THEN TRUE ELSE MethodsIdle
    /\ IF part = "eval" THEN TRUE ELSE EvalIdle
    /\ IF part = "printer" THEN TRUE ELSE PrinterIdle
    /\ IF part = "arguments" THEN TRUE ELSE ArgumentsIdle
    /\ IF part = "members" THEN TRUE ELSE MembersIdle
    /\ IF part = "sameExpr" THEN TRUE ELSE SameExprIdle
    /\ IF part = "fromSyntax" THEN TRUE ELSE ProtoSyntaxIdle

SemanticsIdle == SemanticsIdleExcept("none")

\* A step of the part named leaves the other parts as they are.
OthersUnchanged(part) ==
    /\ IF part = "types" THEN TRUE ELSE UNCHANGED typeVars
    /\ IF part = "qualifiers" THEN TRUE ELSE UNCHANGED qualifierVars
    /\ IF part = "modules" THEN TRUE ELSE UNCHANGED moduleVars
    /\ IF part = "methods" THEN TRUE ELSE UNCHANGED methodVars
    /\ IF part = "eval" THEN TRUE ELSE UNCHANGED evalVars
    /\ IF part = "printer" THEN TRUE ELSE UNCHANGED printerVars
    /\ IF part = "arguments" THEN TRUE ELSE UNCHANGED argVars
    /\ IF part = "members" THEN TRUE ELSE UNCHANGED listVars
    /\ IF part = "sameExpr" THEN TRUE ELSE UNCHANGED sameExprVars
    /\ IF part = "fromSyntax" THEN TRUE ELSE UNCHANGED protoSyntaxVars

----------------------------------------------------------------------------
(* assignText / assignBuffer *)

Digits == <<"0", "1", "2", "3", "4", "5", "6", "7", "8", "9">>

\* std::to_string on an unsigned value
RECURSIVE to_string(_)
to_string(n) == IF n < 10 THEN Digits[n + 1] ELSE to_string(n \div 10) \o Digits[(n % 10) + 1]

\* the copy assignText makes of the text: NUL-terminated
TerminatedCopy(text) ==
    IF text = <<>> \/ text[Len(text)] # NUL THEN Append(text, NUL) ELSE text

\* assignText, up to the point where it needs a name
assignText(t, path, text, includedFrom) ==
    /\ CanCall(t)
    /\ NumEntries <= MaxBuffers
    /\ Begin(t, IF path = "" THEN "at_count_read" ELSE "at_assign",
             [IdleFrame EXCEPT !.op = "assignText", !.name = path,
                               !.text = TerminatedCopy(text), !.loc = includedFrom])
    /\ UNCHANGED <<semVars, parseVars, bufferEntries, fileData, lookupCache, userFileLookup, unnamedBufferCount,
                   ret, handedOut>>

\* unnamedBufferCount++ : the read of the counter (outside any lock)
assignTextReadCount(t) ==
    /\ pc[t] = "at_count_read"
    /\ frame' = [frame EXCEPT ![t].tmp = unnamedBufferCount]
    /\ Goto(t, "at_count_write")
    /\ UNCHANGED <<semVars, parseVars, bufferEntries, fileData, lookupCache, userFileLookup, unnamedBufferCount,
                   ret, calls, handedOut>>

\* unnamedBufferCount++ : the write back, and the synthetic name built from the old value
assignTextWriteCount(t) ==
    /\ pc[t] = "at_count_write"
    /\ unnamedBufferCount' = frame[t].tmp + 1
    /\ frame' = [frame EXCEPT ![t].name = "<unnamed_buffer" \o to_string(frame[t].tmp) \o ">"]
    /\ Goto(t, "at_assign")
    /\ UNCHANGED <<semVars, parseVars, bufferEntries, fileData, lookupCache, userFileLookup, ret, calls, handedOut>>

\* map[key] = value
MapAssign(map, key, value) ==
    [k \in DOMAIN map \cup {key} |-> IF k = key THEN value ELSE map[k]]

MapEmplaceOverwrites(map, key, value) ==
    [k \in DOMAIN map \cup {key} |-> IF k = key THEN value ELSE map[k]]

\* map.emplace(key, value): an existing key keeps its value
MapEmplace(map, key, value) ==
    [k \in DOMAIN map \cup {key} |-> IF k \in DOMAIN map THEN map[k] ELSE value]

\* SourceManager::assignBuffer, under the unique lock
assignBuffer(t) ==
    /\ pc[t] = "at_assign"
    /\ LET fd == Len(fileData) + 1
           made == createBufferEntry(fd, frame[t].loc)
       IN  /\ fileData' = Append(fileData, FileData(frame[t].name, frame[t].text))
           /\ userFileLookup' = MapAssign(userFileLookup, frame[t].name, fd)
           /\ bufferEntries' = made.entries
           /\ handedOut' = Append(handedOut, made.buffer.id)
           /\ Return(t, [NoResult EXCEPT !.op = "assignText", !.how = "created",
                                         !.path = frame[t].name,
                                         !.id = made.buffer.id, !.fd = made.buffer.fd])
    /\ UNCHANGED <<semVars, parseVars, lookupCache, unnamedBufferCount, calls>>

----------------------------------------------------------------------------
(* createExpansionLoc, both overloads, under the unique lock *)

createExpansionLocArg(t, originalLoc, expansionStart, isMacroArg) ==
    /\ CanCall(t)
    /\ NumEntries <= MaxBuffers
    /\ LET entries == Append(bufferEntries,
                             ExpansionInfo(originalLoc, expansionStart, isMacroArg, ""))
       IN  /\ bufferEntries' = entries
           /\ handedOut' = Append(handedOut, NewBufferId(entries))
           /\ ret' = [ret EXCEPT ![t] =
                        [NoResult EXCEPT !.op = "createExpansionLoc", !.how = "created",
                                         !.id = NewBufferId(entries),
                                         !.loc = Loc(NewBufferId(entries), 0)]]
    /\ calls' = [calls EXCEPT ![t] = @ - 1]
    /\ UNCHANGED <<semVars, parseVars, fileData, lookupCache, userFileLookup, unnamedBufferCount, pc, frame>>

createExpansionLocNamed(t, originalLoc, expansionStart, macroName) ==
    /\ CanCall(t)
    /\ NumEntries <= MaxBuffers
    /\ LET entries == Append(bufferEntries,
                             ExpansionInfo(originalLoc, expansionStart, FALSE, macroName))
       IN  /\ bufferEntries' = entries
           /\ handedOut' = Append(handedOut, NewBufferId(entries))
           /\ ret' = [ret EXCEPT ![t] =
                        [NoResult EXCEPT !.op = "createExpansionLoc", !.how = "created",
                                         !.id = NewBufferId(entries),
                                         !.loc = Loc(NewBufferId(entries), 0)]]
    /\ calls' = [calls EXCEPT ![t] = @ - 1]
    /\ UNCHANGED <<semVars, parseVars, fileData, lookupCache, userFileLookup, unnamedBufferCount, pc, frame>>

----------------------------------------------------------------------------
(* readSource / readHeader -> openCached -> cacheBuffer *)

\* openCached up to its first lock: fs::canonical; on ec an empty SourceBuffer
openCached(t, fullPath, includedFrom) ==
    /\ CanCall(t)
    /\ NumEntries <= MaxBuffers
    /\ calls' = [calls EXCEPT ![t] = @ - 1]
    /\ IF Canonical(fullPath) = ""
       THEN /\ ret' = [ret EXCEPT ![t] =
                         [NoResult EXCEPT !.op = "openCached", !.how = "canonical_failed",
                                          !.path = fullPath]]
            /\ UNCHANGED <<pc, frame>>
       ELSE /\ pc' = [pc EXCEPT ![t] = "oc_lookup"]
            /\ frame' = [frame EXCEPT ![t] =
                           [IdleFrame EXCEPT !.op = "openCached", !.path = Canonical(fullPath),
                                             !.loc = includedFrom]]
            /\ UNCHANGED ret
    /\ UNCHANGED <<semVars, parseVars, bufferEntries, fileData, lookupCache, userFileLookup, unnamedBufferCount,
                   handedOut>>

\* SourceManager::readSource
readSource(t, path) == openCached(t, path, DefaultLoc)

\* SourceManager::readHeader with an absolute path
readHeader(t, path, includedFrom) == openCached(t, path, includedFrom)

openCachedLookupNoNullCheck(t) ==
    /\ pc[t] = "oc_lookup"
    /\ LET abs == frame[t].path IN
       IF abs \in DOMAIN lookupCache
       THEN LET made == createBufferEntry(lookupCache[abs], frame[t].loc) IN
            /\ bufferEntries' = made.entries
            /\ handedOut' = Append(handedOut, made.buffer.id)
            /\ Return(t, [NoResult EXCEPT !.op = "openCached", !.how = "cached",
                                          !.path = abs, !.id = made.buffer.id,
                                          !.fd = made.buffer.fd])
       ELSE /\ Goto(t, "oc_read")
            /\ UNCHANGED <<bufferEntries, handedOut, frame, ret>>
    /\ UNCHANGED <<semVars, parseVars, fileData, lookupCache, userFileLookup, unnamedBufferCount, calls>>

\* "first see if we have this file cached", under the unique lock
openCachedLookup(t) ==
    /\ pc[t] = "oc_lookup"
    /\ LET abs == frame[t].path IN
       IF abs \in DOMAIN lookupCache
       THEN IF lookupCache[abs] = 0
            THEN /\ Return(t, [NoResult EXCEPT !.op = "openCached", !.how = "cached_null",
                                               !.path = abs])
                 /\ UNCHANGED <<bufferEntries, handedOut>>
            ELSE LET made == createBufferEntry(lookupCache[abs], frame[t].loc) IN
                 /\ bufferEntries' = made.entries
                 /\ handedOut' = Append(handedOut, made.buffer.id)
                 /\ Return(t, [NoResult EXCEPT !.op = "openCached", !.how = "cached",
                                               !.path = abs, !.id = made.buffer.id,
                                               !.fd = made.buffer.fd])
       ELSE /\ Goto(t, "oc_read")
            /\ UNCHANGED <<bufferEntries, handedOut, frame, ret>>
    /\ UNCHANGED <<semVars, parseVars, fileData, lookupCache, userFileLookup, unnamedBufferCount, calls>>

\* "do the read", outside any lock
openCachedRead(t) ==
    /\ pc[t] = "oc_read"
    /\ LET r == readFile(frame[t].path) IN
       IF r.ok
       THEN /\ frame' = [frame EXCEPT ![t].text = r.buffer]
            /\ Goto(t, "oc_cache_buffer")
       ELSE /\ Goto(t, "oc_cache_null")
            /\ UNCHANGED frame
    /\ UNCHANGED <<semVars, parseVars, bufferEntries, fileData, lookupCache, userFileLookup, unnamedBufferCount,
                   ret, calls, handedOut>>

\* the read failed: lookupCache.emplace(path, nullptr), under the unique lock
openCachedFailed(t) ==
    /\ pc[t] = "oc_cache_null"
    /\ lookupCache' = MapEmplace(lookupCache, frame[t].path, 0)
    /\ Return(t, [NoResult EXCEPT !.op = "openCached", !.how = "read_failed",
                                  !.path = frame[t].path])
    /\ UNCHANGED <<semVars, parseVars, bufferEntries, fileData, userFileLookup, unnamedBufferCount, calls,
                   handedOut>>

\* the name cacheBuffer gives the file: its path relative to the working directory "/"
ProximateName(abs) == IF abs = "/a.sv" THEN "a.sv" ELSE "b.sv"

\* SourceManager::cacheBuffer, under the unique lock. The new FileData is kept only
\* when the path is not cached yet; createBufferEntry's ASSERT(fd) fails on a cached nullptr.
cacheBuffer(t) ==
    /\ pc[t] = "oc_cache_buffer"
    /\ LET abs == frame[t].path
           fd == Len(fileData) + 1
           cache == MapEmplace(lookupCache, abs, fd)
           fdPtr == cache[abs]
       IN  /\ lookupCache' = cache
           /\ fileData' = IF fdPtr = fd
                          THEN Append(fileData, FileData(ProximateName(abs), frame[t].text))
                          ELSE fileData
           /\ IF fdPtr = 0
              THEN /\ Goto(t, "assert_failed")
                   /\ UNCHANGED <<bufferEntries, handedOut, frame, ret>>
              ELSE LET made == createBufferEntry(fdPtr, frame[t].loc) IN
                   /\ bufferEntries' = made.entries
                   /\ handedOut' = Append(handedOut, made.buffer.id)
                   /\ Return(t, [NoResult EXCEPT !.op = "openCached", !.how = "read",
                                                 !.path = abs, !.id = made.buffer.id,
                                                 !.fd = made.buffer.fd])
    /\ UNCHANGED <<semVars, parseVars, userFileLookup, unnamedBufferCount, calls>>

----------------------------------------------------------------------------
(* Location queries. Entries never change once created, so each is one read. *)

\* the FileData of a file buffer (0 when the buffer is no file or has no data)
DataOf(b) == IF IsFileInfo(b) THEN Entry(b).data ELSE 0

isFileLoc(l) == IsFileInfo(l.buf)

isMacroLoc(l) == l.buf # 0 /\ l.buf < NumEntries /\ Entry(l.buf).kind = "expansion"

isMacroArgLoc(l) == isMacroLoc(l) /\ Entry(l.buf).isMacroArg

getIncludedFrom(b) == IF IsFileInfo(b) THEN Entry(b).includedFrom ELSE DefaultLoc

isIncludedFileLoc(l) == Valid(getIncludedFrom(l.buf))

\* std::get<ExpansionInfo>(...).expansionRange.start()
getExpansionLoc(l) == IF l.buf = 0 THEN DefaultLoc ELSE Entry(l.buf).expansionStart

\* std::get<ExpansionInfo>(...).originalLoc + location.offset()
getOriginalLoc(l) ==
    IF l.buf = 0 THEN DefaultLoc
    ELSE Loc(Entry(l.buf).originalLoc.buf, Entry(l.buf).originalLoc.off + l.off)

\* one iteration of the loop of getFullyExpandedLoc
ExpandOnce(l) == IF isMacroArgLoc(l) THEN getOriginalLoc(l) ELSE getExpansionLoc(l)

----------------------------------------------------------------------------
(* Line offsets and line directives *)

IsNewline(c) == c = LF \/ c = CR

\* buffer[ptr] with ptr 0-based; the byte after a NUL-terminated buffer is never read
CharAt(buffer, ptr) == IF ptr < Len(buffer) THEN buffer[ptr + 1] ELSE NUL

RECURSIVE ScanLines(_, _, _)
ScanLines(buffer, ptr, offsets) ==
    IF ptr = Len(buffer) THEN offsets
    ELSE IF IsNewline(CharAt(buffer, ptr))
         THEN LET next == IF IsNewline(CharAt(buffer, ptr + 1))
                             /\ CharAt(buffer, ptr) # CharAt(buffer, ptr + 1)
                          THEN ptr + 2 ELSE ptr + 1
              IN  ScanLines(buffer, next, Append(offsets, next))
         ELSE ScanLines(buffer, ptr + 1, offsets)

\* SourceManager::computeLineOffsets: pushes onto whatever offsets already holds
computeLineOffsets(buffer, offsets) == ScanLines(buffer, 0, Append(offsets, 0))

\* std::lower_bound over keys (a sequence), 0-based result; the binary search as the
\* library runs it, whether or not keys is sorted
RECURSIVE LowerBoundFrom(_, _, _, _)
LowerBoundFrom(keys, value, first, count) ==
    IF count = 0 THEN first
    ELSE LET step == count \div 2 IN
         IF keys[first + step + 1] < value
         THEN LowerBoundFrom(keys, value, first + step + 1, count - (step + 1))
         ELSE LowerBoundFrom(keys, value, first, step)

lower_bound(keys, value) == LowerBoundFrom(keys, value, 0, Len(keys))

\* the tail of getRawLineNumber: the line of an offset, given the line offsets
LineOfOffset(lineOffsets, offset) ==
    LET it == lower_bound(lineOffsets, offset) IN
    IF it # Len(lineOffsets) /\ lineOffsets[it + 1] = offset THEN it + 1 ELSE it

LineDirectiveInfo(lineInFile, lineOfDirective, level) ==
    [lineInFile |-> lineInFile, lineOfDirective |-> lineOfDirective, level |-> level]

LineInFileKeys(lineDirectives) ==
    [i \in 1..Len(lineDirectives) |-> lineDirectives[i].lineInFile]

\* FileInfo::getPreviousLineDirective: the index (1-based) of the directive, 0 for nullptr
getPreviousLineDirective(lineDirectives, rawLineNumber) ==
    LET it == lower_bound(LineInFileKeys(lineDirectives), rawLineNumber) IN
    IF it # 0
    THEN IF it = Len(lineDirectives)
            /\ lineDirectives[Len(lineDirectives)].lineInFile >= rawLineNumber
         THEN 0
         ELSE it
    ELSE 0

\* the last statement of getLineNumber
RemappedLine(lineDirectives, rawLineNumber) ==
    LET d == getPreviousLineDirective(lineDirectives, rawLineNumber) IN
    IF d = 0 THEN rawLineNumber
    ELSE lineDirectives[d].lineOfDirective
         + (rawLineNumber - lineDirectives[d].lineInFile) - 1

RECURSIVE LineStartBefore(_, _)
LineStartBefore(mem, lineStart) ==
    IF lineStart > 0 /\ ~IsNewline(mem[lineStart])
    THEN LineStartBefore(mem, lineStart - 1)
    ELSE lineStart

\* SourceManager::getColumnNumber (the offset is inside the buffer: ASSERT)
ColumnOf(l) ==
    IF DataOf(l.buf) = 0 THEN 0
    ELSE l.off - LineStartBefore(fileData[DataOf(l.buf)].mem, l.off) + 1

----------------------------------------------------------------------------
(* getFullyExpandedLoc / getFullyOriginalLoc, one loop iteration per step *)

smState == <<bufferEntries, fileData, lookupCache, userFileLookup, unnamedBufferCount,
             handedOut>>

getFullyExpandedLoc(t, location) ==
    /\ CanCall(t)
    /\ Begin(t, "expand", [IdleFrame EXCEPT !.op = "getFullyExpandedLoc", !.loc = location,
                                            !.loc2 = location])
    /\ UNCHANGED <<semVars, parseVars, smState, ret>>

getFullyOriginalLoc(t, location) ==
    /\ CanCall(t)
    /\ Begin(t, "original", [IdleFrame EXCEPT !.op = "getFullyOriginalLoc", !.loc = location,
                                              !.loc2 = location])
    /\ UNCHANGED <<semVars, parseVars, smState, ret>>

\* while (isMacroLoc(location)) location = isMacroArgLoc ? getOriginalLoc : getExpansionLoc
expandStep(t) ==
    /\ pc[t] = "expand"
    /\ isMacroLoc(frame[t].loc)
    /\ frame' = [frame EXCEPT ![t].loc = ExpandOnce(@), ![t].tmp = @ + 1]
    /\ UNCHANGED <<semVars, parseVars, smState, pc, ret, calls>>

\* while (isMacroLoc(location)) location = getOriginalLoc(location)
originalStep(t) ==
    /\ pc[t] = "original"
    /\ isMacroLoc(frame[t].loc)
    /\ frame' = [frame EXCEPT ![t].loc = getOriginalLoc(@), ![t].tmp = @ + 1]
    /\ UNCHANGED <<semVars, parseVars, smState, pc, ret, calls>>

originalDone(t) ==
    /\ pc[t] = "original"
    /\ ~isMacroLoc(frame[t].loc)
    /\ Return(t, [NoResult EXCEPT !.op = "getFullyOriginalLoc", !.loc = frame[t].loc,
                                  !.arg = frame[t].loc2, !.steps = frame[t].tmp])
    /\ UNCHANGED <<semVars, parseVars, smState, calls>>

\* the loop of getFullyExpandedLoc left without its test
expandDoneEarly(t) ==
    /\ pc[t] = "expand"
    /\ Return(t, [NoResult EXCEPT !.op = "getFullyExpandedLoc", !.loc = frame[t].loc,
                                  !.arg = frame[t].loc2, !.steps = frame[t].tmp])
    /\ UNCHANGED <<semVars, parseVars, smState, calls>>

\* The loop of getFullyExpandedLoc ends. getLineNumber and addLineDirective go on with
\* the file location: addLineDirective returns at once when it is no file with data.
expandDone(t) ==
    /\ pc[t] = "expand"
    /\ ~isMacroLoc(frame[t].loc)
    /\ IF frame[t].op = "getFullyExpandedLoc"
       THEN Return(t, [NoResult EXCEPT !.op = "getFullyExpandedLoc", !.loc = frame[t].loc,
                                       !.arg = frame[t].loc2, !.steps = frame[t].tmp])
       ELSE IF frame[t].op = "addLineDirective" /\ DataOf(frame[t].loc.buf) = 0
            THEN Return(t, [NoResult EXCEPT !.op = "addLineDirective", !.how = "no_file",
                                            !.arg = frame[t].loc2])
            ELSE /\ Goto(t, "grl_check")
                 /\ UNCHANGED <<frame, ret>>
    /\ UNCHANGED <<semVars, parseVars, smState, calls>>

----------------------------------------------------------------------------
(* getRawLineNumber, getLineNumber, getColumnNumber, addLineDirective *)

getRawLineNumber(t, location) ==
    /\ CanCall(t)
    /\ Begin(t, "grl_check", [IdleFrame EXCEPT !.op = "getRawLineNumber", !.loc = location,
                                               !.loc2 = location])
    /\ UNCHANGED <<semVars, parseVars, smState, ret>>

getLineNumber(t, location) ==
    /\ CanCall(t)
    /\ Begin(t, "expand", [IdleFrame EXCEPT !.op = "getLineNumber", !.loc = location,
                                            !.loc2 = location])
    /\ UNCHANGED <<semVars, parseVars, smState, ret>>

addLineDirective(t, location, lineNum, level) ==
    /\ CanCall(t)
    /\ Begin(t, "expand", [IdleFrame EXCEPT !.op = "addLineDirective", !.loc = location,
                                            !.loc2 = location, !.num = lineNum,
                                            !.level = level])
    /\ UNCHANGED <<semVars, parseVars, smState, ret>>

getColumnNumber(t, location) ==
    /\ CanCall(t)
    /\ calls' = [calls EXCEPT ![t] = @ - 1]
    /\ ret' = [ret EXCEPT ![t] = [NoResult EXCEPT !.op = "getColumnNumber",
                                                  !.val = ColumnOf(location),
                                                  !.arg = location]]
    /\ UNCHANGED <<semVars, parseVars, smState, pc, frame>>

\* getRawLineNumber has its line: it returns, or its caller goes on
RawLineKnown(t, line) ==
    CASE frame[t].op = "getRawLineNumber" ->
            Return(t, [NoResult EXCEPT !.op = "getRawLineNumber", !.val = line,
                                       !.arg = frame[t].loc2])
      [] frame[t].op = "getLineNumber" /\ line = 0 ->
            Return(t, [NoResult EXCEPT !.op = "getLineNumber", !.val = 0,
                                       !.arg = frame[t].loc2])
      [] frame[t].op = "getLineNumber" /\ line # 0 ->
            /\ pc' = [pc EXCEPT ![t] = "gln_directive"]
            /\ frame' = [frame EXCEPT ![t].tmp = line]
            /\ UNCHANGED ret
      [] OTHER ->
            /\ pc' = [pc EXCEPT ![t] = "ald_append"]
            /\ frame' = [frame EXCEPT ![t].tmp = line]
            /\ UNCHANGED ret

\* getFileInfo, then under the shared lock: are the line offsets there? If they are,
\* the search runs under the same lock.
rawLineCheck(t) ==
    /\ pc[t] = "grl_check"
    /\ LET fd == DataOf(frame[t].loc.buf) IN
       IF fd = 0
       THEN RawLineKnown(t, 0)
       ELSE IF fileData[fd].lineOffsets = <<>>
            THEN /\ Goto(t, "grl_compute")
                 /\ UNCHANGED <<frame, ret>>
            ELSE RawLineKnown(t, LineOfOffset(fileData[fd].lineOffsets, frame[t].loc.off))
    /\ UNCHANGED <<semVars, parseVars, smState, calls>>

\* the shared lock was given up; under the unique lock: computeLineOffsets
rawLineCompute(t) ==
    /\ pc[t] = "grl_compute"
    /\ LET fd == DataOf(frame[t].loc.buf) IN
       fileData' = [fileData EXCEPT ![fd].lineOffsets =
                       computeLineOffsets(fileData[fd].mem, @)]
    /\ Goto(t, "grl_search")
    /\ UNCHANGED <<semVars, parseVars, bufferEntries, lookupCache, userFileLookup, unnamedBufferCount,
                   handedOut, frame, ret, calls>>

\* the shared lock again: the search
rawLineSearch(t) ==
    /\ pc[t] = "grl_search"
    /\ LET fd == DataOf(frame[t].loc.buf) IN
       RawLineKnown(t, LineOfOffset(fileData[fd].lineOffsets, frame[t].loc.off))
    /\ UNCHANGED <<semVars, parseVars, smState, calls>>

\* getLineNumber after getRawLineNumber: the nearest directive, under the shared lock
lineNumberRemap(t) ==
    /\ pc[t] = "gln_directive"
    /\ Return(t, [NoResult EXCEPT !.op = "getLineNumber", !.arg = frame[t].loc2,
                    !.val = RemappedLine(Entry(frame[t].loc.buf).lineDirectives, frame[t].tmp)])
    /\ UNCHANGED <<semVars, parseVars, smState, calls>>

\* info->lineDirectives.emplace_back(...)
AppendDirective(lineDirectives, d) == Append(lineDirectives, d)

\* addLineDirective after getRawLineNumber, under the unique lock
lineDirectiveAppend(t) ==
    /\ pc[t] = "ald_append"
    /\ bufferEntries' = [bufferEntries EXCEPT ![frame[t].loc.buf + 1].lineDirectives =
                            AppendDirective(@, LineDirectiveInfo(frame[t].tmp, frame[t].num,
                                                                 frame[t].level))]
    /\ Return(t, [NoResult EXCEPT !.op = "addLineDirective", !.how = "added",
                                  !.arg = frame[t].loc2, !.val = frame[t].tmp])
    /\ UNCHANGED <<semVars, parseVars, fileData, lookupCache, userFileLookup, unnamedBufferCount,
                   handedOut, calls>>

----------------------------------------------------------------------------
(* isBeforeInCompilationUnit *)

\* the lambda moveUp: the location after the move, and whether the top was reached
moveUp(sl) ==
    IF Valid(sl) /\ ~isFileLoc(sl)
    THEN [sl |-> getExpansionLoc(sl), top |-> FALSE]
    ELSE LET included == getIncludedFrom(sl.buf) IN
         IF ~Valid(included) THEN [sl |-> sl, top |-> TRUE]
         ELSE [sl |-> included, top |-> FALSE]

\* do { leftChain.emplace(...); } while (left.buffer() != right.buffer() && !moveUp(left));
RECURSIVE BuildLeftChain(_, _, _)
BuildLeftChain(chain, left, right) ==
    LET c == MapEmplace(chain, left.buf, left.off) IN
    IF left.buf # right.buf /\ ~moveUp(left).top
    THEN BuildLeftChain(c, moveUp(left).sl, right)
    ELSE [chain |-> c, left |-> left]

\* while ((it = leftChain.find(right.buffer())) == leftChain.end()) if (moveUp(right)) break;
RECURSIVE FindInChain(_, _)
FindInChain(chain, right) ==
    IF right.buf \in DOMAIN chain THEN [found |-> TRUE, right |-> right]
    ELSE IF moveUp(right).top THEN [found |-> FALSE, right |-> right]
         ELSE FindInChain(chain, moveUp(right).sl)

\* the two locations brought to their nearest common ancestor buffer
CommonAncestor(left, right) ==
    LET built == BuildLeftChain(<<>>, left, right)
        hit == FindInChain(built.chain, right)
    IN  [left |-> IF hit.found THEN Loc(hit.right.buf, built.chain[hit.right.buf])
                  ELSE built.left,
         right |-> hit.right]

\* SourceManager::isBeforeInCompilationUnit (its ASSERT is SameUnit below)
isBeforeInCompilationUnit(left, right) ==
    IF left.buf = right.buf THEN left.off < right.off
    ELSE CommonAncestor(left, right).left.off < CommonAncestor(left, right).right.off

\* ASSERT(left.buffer() == right.buffer()) at the end of isBeforeInCompilationUnit
SameUnit(left, right) ==
    left.buf = right.buf
    \/ CommonAncestor(left, right).left.buf = CommonAncestor(left, right).right.buf

----------------------------------------------------------------------------
(* The manager shared by threads: buffer creation, the file cache, lazy line offsets *)

\* the locations of the existing buffers, offsets 0..maxOff
ExistingLocs(maxOff) == {Loc(b, o) : b \in 1..(NumEntries - 1), o \in 0..maxOff}

FileLocs(maxOff) == {l \in ExistingLocs(maxOff) : isFileLoc(l)}

SharedText == <<"p", LF>>

InitSM == SourceManager([t \in Threads |-> MaxCalls]) /\ ParserIdle /\ SemanticsIdle

NextSM ==
    \E t \in Threads :
        \/ \E path \in {"", "m.sv"} : assignText(t, path, SharedText, DefaultLoc)
        \/ assignTextReadCount(t)
        \/ assignTextWriteCount(t)
        \/ assignBuffer(t)
        \/ \E l \in ExistingLocs(0), arg \in BOOLEAN : createExpansionLocArg(t, l, l, arg)
        \/ \E l \in ExistingLocs(0) : createExpansionLocNamed(t, l, l, "M")
        \/ \E path \in DiskPaths : readSource(t, path)
        \/ \E path \in DiskPaths, l \in FileLocs(0) : readHeader(t, path, l)
        \/ openCachedLookup(t)
        \/ openCachedRead(t)
        \/ openCachedFailed(t)
        \/ cacheBuffer(t)
        \/ \E l \in FileLocs(2) : getRawLineNumber(t, l)
        \/ rawLineCheck(t)
        \/ rawLineCompute(t)
        \/ rawLineSearch(t)

SpecSM == InitSM /\ [][NextSM]_vars

\* thread t completes a call in this step
Returns(t) ==
    \/ pc[t] # "idle" /\ pc'[t] = "idle"
    \/ pc[t] = "idle" /\ pc'[t] = "idle" /\ calls'[t] # calls[t]

----------------------------------------------------------------------------
(* Properties of the shared manager (SpecSM) *)

\* C1: the buffer IDs handed out by the buffer-creating calls (assignText, readSource /
\* readHeader, both createExpansionLoc overloads), in the order the calls created them, are
\* exactly 1, 2, 3, ... with no gap and no repeat (0 is the dummy entry), and no step of any
\* thread changes or removes an entry that exists.
C1_DenseMonotonicIds ==
    /\ [](handedOut = [i \in 1..(NumEntries - 1) |-> i])
    /\ [][/\ Len(bufferEntries') >= Len(bufferEntries)
          /\ \A i \in 1..Len(bufferEntries) : bufferEntries'[i] = bufferEntries[i]]_vars

\* C1 witness: two threads have each been handed an ID, file and expansion buffers exist
C1_Witness ==
    /\ NumEntries > MaxBuffers
    /\ \E t1, t2 \in Threads : t1 # t2 /\ ret[t1].id # 0 /\ ret[t2].id # 0
    /\ \E b \in 1..(NumEntries - 1) : Entry(b).kind = "expansion"
    /\ \E b \in 1..(NumEntries - 1) : Entry(b).kind = "file"

\* the result of a successful openCached
Opened(t) == ret[t].op = "openCached" /\ ret[t].id # 0

\* the line offsets a single computeLineOffsets call gives a buffer
LineStarts(mem) == computeLineOffsets(mem, <<>>)

\* C2 (as claimed): whatever the interleaving of getRawLineNumber calls, a file's line
\* offsets are either not computed yet or the result of exactly one computation (0 first,
\* strictly increasing), and every call returns the line a single-threaded run returns.
C2_LineOffsetsOnce ==
    /\ \A fd \in 1..Len(fileData) :
          fileData[fd].lineOffsets \in {<<>>, LineStarts(fileData[fd].mem)}
    /\ \A t \in Threads :
          ret[t].op = "getRawLineNumber" /\ DataOf(ret[t].arg.buf) # 0
          => ret[t].val = LineOfOffset(LineStarts(fileData[DataOf(ret[t].arg.buf)].mem),
                                       ret[t].arg.off)

\* C3 (as claimed): two readSource / readHeader results for the same canonical path have
\* the same BufferID and data, and the file has a single buffer entry.
C3_SameBufferReturned ==
    /\ \A t1, t2 \in Threads :
          Opened(t1) /\ Opened(t2) /\ ret[t1].path = ret[t2].path
          => ret[t1].id = ret[t2].id /\ ret[t1].fd = ret[t2].fd
    /\ \A abs \in DOMAIN lookupCache :
          lookupCache[abs] # 0
          => Cardinality({b \in 1..(NumEntries - 1) : Entry(b).data = lookupCache[abs]}) <= 1

\* C3 (amended): two results for the same canonical path share the cached file data, the
\* one FileData the cache holds for the path, but each call got a buffer entry and a
\* BufferID of its own.
C3_SameDataNewBuffer ==
    \A t1, t2 \in Threads :
        t1 # t2 /\ Opened(t1) /\ Opened(t2) /\ ret[t1].path = ret[t2].path
        => /\ ret[t1].fd = ret[t2].fd
           /\ ret[t1].fd = lookupCache[ret[t1].path]
           /\ ret[t1].id # ret[t2].id
           /\ Entry(ret[t1].id).data = ret[t1].fd
           /\ Entry(ret[t2].id).data = ret[t2].fd

\* C3 witness: the same file opened through two spellings of its path, the second from the cache
C3_Witness ==
    \E t1, t2 \in Threads :
        /\ t1 # t2 /\ Opened(t1) /\ Opened(t2)
        /\ ret[t1].path = "/a.sv" /\ ret[t2].path = "/a.sv"
        /\ ret[t1].how = "read" /\ ret[t2].how = "cached"

\* C4: an openCached whose path does not canonicalize or whose file cannot be read returns
\* the empty SourceBuffer, the step that returns it leaves the buffer entries as they were,
\* and no buffer entry ever refers to such a file (the dummy aside, no entry lacks data).
C4_FailedOpenAllocatesNothing ==
    /\ [](/\ \A t \in Threads :
               ret[t].op = "openCached"
               /\ (ret[t].how = "canonical_failed" \/ ~Readable(ret[t].path))
               => ret[t].id = 0 /\ ret[t].fd = 0
          /\ \A b \in 1..(NumEntries - 1) :
               Entry(b).kind = "file"
               => Entry(b).data # 0 /\ fileData[Entry(b).data].name # ProximateName("/b.sv"))
    /\ [][\A t \in Threads :
            Returns(t) /\ ret'[t].op = "openCached" /\ ret'[t].id = 0
            => bufferEntries' = bufferEntries /\ handedOut' = handedOut]_vars

\* C4 witness: a first request failed in the read, a later one was answered from the cache
C4_Witness ==
    \E t1, t2 \in Threads :
        /\ ret[t1].op = "openCached" /\ ret[t1].how = "read_failed"
        /\ ret[t2].op = "openCached" /\ ret[t2].how = "cached_null"
        /\ ret[t1].path = ret[t2].path

----------------------------------------------------------------------------
(* One file and its `line directives, used by one thread (SpecLine) *)

RECURSIVE TextsOfLen(_)
TextsOfLen(n) ==
    IF n = 0 THEN {<<>>}
    ELSE {Append(text, c) : text \in TextsOfLen(n - 1), c \in {"a", LF, CR}}

\* every text of up to MaxTextLen characters, line ends of all kinds included
Texts == UNION {TextsOfLen(n) : n \in 0..MaxTextLen}

\* every location inside the bytes of an existing file buffer
LocsInFiles ==
    {Loc(b, o) : b \in {x \in 1..(NumEntries - 1) : DataOf(x) # 0},
                 o \in 0..MaxTextLen} \cap
    {l \in [buf : 1..(NumEntries - 1), off : 0..MaxTextLen] :
        l.off < Len(fileData[DataOf(l.buf)].mem)}

InitLine ==
    /\ SourceManager([t \in Threads |-> IF t = 1 THEN MaxDirectives + 2 ELSE 0])
    /\ ParserIdle /\ SemanticsIdle

NextLine ==
    \E t \in {1} :
        \/ \E text \in Texts : NumEntries = 1 /\ assignText(t, "t.sv", text, DefaultLoc)
        \/ assignBuffer(t)
        \/ \E l \in LocsInFiles, n \in 0..MaxLineNum :
              /\ Len(Entry(l.buf).lineDirectives) < MaxDirectives
              /\ addLineDirective(t, l, n, 1)
        \/ \E l \in LocsInFiles : getLineNumber(t, l)
        \/ \E l \in LocsInFiles : getColumnNumber(t, l)
        \/ expandDone(t)
        \/ rawLineCheck(t)
        \/ rawLineCompute(t)
        \/ rawLineSearch(t)
        \/ lineNumberRemap(t)
        \/ lineDirectiveAppend(t)

SpecLine == InitLine /\ [][NextLine]_vars

\* the raw (in-file) line of a file location
RawLine(l) == LineOfOffset(LineStarts(fileData[DataOf(l.buf)].mem), l.off)

\* the offset at which the line of a file location starts
LineStart(l) == LineStarts(fileData[DataOf(l.buf)].mem)[RawLine(l)]

\* the directives on raw lines before r, and the nearest of them
Preceding(lineDirectives, r) ==
    {i \in 1..Len(lineDirectives) : lineDirectives[i].lineInFile < r}

Nearest(lineDirectives, r) ==
    {i \in Preceding(lineDirectives, r) :
        \A j \in Preceding(lineDirectives, r) :
            lineDirectives[j].lineInFile <= lineDirectives[i].lineInFile}

\* C5 (as claimed): whatever the order of the addLineDirective calls, the line directives
\* of a file buffer are in non-decreasing order of their in-file line.
C5_DirectivesSorted ==
    \A b \in 1..(NumEntries - 1) :
        \A i, j \in 1..Len(Entry(b).lineDirectives) :
            i < j => Entry(b).lineDirectives[i].lineInFile
                       <= Entry(b).lineDirectives[j].lineInFile

\* C6 (as claimed): getLineNumber of a file location on raw line r returns r when no
\* directive lies on a raw line before r, and otherwise new_line + (r - raw_line) - 1 of a
\* directive with the greatest raw line below r. (One thread: ret[t] is the latest call.)
C6_NearestPrecedingDirective ==
    \A t \in Threads :
        ret[t].op = "getLineNumber" /\ isFileLoc(ret[t].arg)
        => LET dirs == Entry(ret[t].arg.buf).lineDirectives
               r == RawLine(ret[t].arg)
           IN  IF Preceding(dirs, r) = {}
               THEN ret[t].val = r
               ELSE \E i \in Nearest(dirs, r) :
                       ret[t].val = dirs[i].lineOfDirective + (r - dirs[i].lineInFile) - 1

\* C7 (as claimed): for every location in a file buffer, after any addLineDirective calls,
\* getLineNumber >= 1, getColumnNumber >= 1, and the column is the distance of the location
\* from the start of its line, plus one.
C7_LineAndColumnPositive ==
    \A t \in Threads :
        /\ ret[t].op = "getLineNumber" /\ isFileLoc(ret[t].arg) => ret[t].val >= 1
        /\ ret[t].op = "getColumnNumber" /\ isFileLoc(ret[t].arg)
           => ret[t].val >= 1 /\ ret[t].val = ret[t].arg.off - LineStart(ret[t].arg) + 1

----------------------------------------------------------------------------
(* Includes and macro expansions built by one thread (SpecLoc) *)

\* the root buffer of a location: moveUp until the top is reached
RECURSIVE RootBuffer(_)
RootBuffer(l) == IF moveUp(l).top THEN l.buf ELSE RootBuffer(moveUp(l).sl)

\* a caller asks isBeforeInCompilationUnit about two locations of one compilation unit
compareLocations(t, left, right) ==
    /\ CanCall(t)
    /\ SameUnit(left, right)
    /\ ret' = [ret EXCEPT ![t] =
                 [NoResult EXCEPT !.op = "isBeforeInCompilationUnit", !.arg = left,
                                  !.loc = right,
                                  !.val = IF isBeforeInCompilationUnit(left, right)
                                          THEN 1 ELSE 0]]
    /\ calls' = [calls EXCEPT ![t] = @ - 1]
    /\ UNCHANGED <<semVars, parseVars, smState, pc, frame>>

\* one iteration or the exit of the loops of getFullyExpandedLoc / getFullyOriginalLoc
WalkStep == \E t \in Threads : expandStep(t) \/ expandDone(t) \/ originalStep(t)
                                  \/ originalDone(t)

InitLoc ==
    /\ SourceManager([t \in Threads |-> IF t = 1 THEN MaxBuffers + 1 ELSE 0])
    /\ ParserIdle /\ SemanticsIdle

NextLoc ==
    \E t \in {1} :
        \/ \E inc \in {DefaultLoc} \cup FileLocs(MaxOffset) :
              assignText(t, "f.sv", <<"a", "b">>, inc)
        \/ assignBuffer(t)
        \/ \E orig \in ExistingLocs(MaxOffset), start \in ExistingLocs(MaxOffset),
              arg \in BOOLEAN : createExpansionLocArg(t, orig, start, arg)
        \/ \E orig \in ExistingLocs(MaxOffset), start \in ExistingLocs(MaxOffset) :
              createExpansionLocNamed(t, orig, start, "M")
        \/ \E l \in ExistingLocs(MaxOffset) : getFullyExpandedLoc(t, l)
        \/ \E l \in ExistingLocs(MaxOffset) : getFullyOriginalLoc(t, l)
        \/ expandStep(t)
        \/ expandDone(t)
        \/ originalStep(t)
        \/ originalDone(t)
        \/ \E left \in ExistingLocs(MaxOffset), right \in ExistingLocs(MaxOffset) :
              compareLocations(t, left, right)

\* a thread inside one of the two loops keeps running
SpecLoc == InitLoc /\ [][NextLoc]_vars /\ WF_vars(WalkStep)

----------------------------------------------------------------------------
(* Properties of the include / expansion forest (SpecLoc) *)

before(a, b) == isBeforeInCompilationUnit(a, b)

\* the locations that share the root file of buffer 1
UnitLocs == {l \in ExistingLocs(MaxOffset) : RootBuffer(l) = 1}

\* C8: isBeforeInCompilationUnit is a strict total order on the locations reachable from
\* one root file through include and expansion parents: irreflexive, transitive, and of
\* two distinct locations exactly one is before the other.
C8_StrictTotalOrder ==
    \A a \in UnitLocs :
        /\ ~before(a, a)
        /\ \A b \in UnitLocs :
              /\ a # b => (before(a, b) /\ ~before(b, a)) \/ (before(b, a) /\ ~before(a, b))
              /\ \A c \in UnitLocs : before(a, b) /\ before(b, c) => before(a, c)

\* C9: when the original location and the expansion range of every createExpansionLoc
\* refer to buffers that already exist, getFullyExpandedLoc and getFullyOriginalLoc
\* terminate on every location (each loop makes fewer iterations than there are buffers,
\* and a started call returns) and return a location in a file buffer.
C9_WalksEndInFile ==
    /\ [](\A t \in Threads :
            /\ pc[t] \in {"expand", "original"} => frame[t].tmp < NumEntries
            /\ ret[t].op \in {"getFullyExpandedLoc", "getFullyOriginalLoc"} =>
                  isFileLoc(ret[t].loc) /\ ~isMacroLoc(ret[t].loc))
    /\ \A t \in Threads : (pc[t] \in {"expand", "original"}) ~> (pc[t] = "idle")

\* a walk that started in an expansion of an expansion has returned
C9_Witness ==
    \E t \in Threads :
        /\ ret[t].op \in {"getFullyExpandedLoc", "getFullyOriginalLoc"}
        /\ ret[t].steps >= 2
        /\ isMacroLoc(ret[t].arg)
        /\ isFileLoc(ret[t].loc)

----------------------------------------------------------------------------
(* Tokens, trivia and syntax nodes *)

\* the recursion limit of the parser, and the longest source text
MaxParseDepth == 1
MaxInputLen == 4

Token(kind, text, trivia, loc) ==
    [node |-> FALSE, kind |-> kind, text |-> text, trivia |-> trivia, missing |-> FALSE,
     valid |-> TRUE, loc |-> loc]

\* a default-constructed Token: operator bool is false
EmptyToken == [Token("Unknown", <<>>, <<>>, DefaultLoc) EXCEPT !.valid = FALSE]

\* Token::createMissing / createExpected: no raw text, no trivia
MissingToken(kind, loc) == [Token(kind, <<>>, <<>>, loc) EXCEPT !.missing = TRUE]

Trivia(kind, text, toks) == [kind |-> kind, text |-> text, tokens |-> toks]

SyntaxNode(kind, children) == [node |-> TRUE, kind |-> kind, children |-> children]

\* The characters of a source text. The keywords are written with one letter:
\* g = generate, h = endgenerate, a = assign.
SourceChars == {";", "g", "h", "a", "(", ")", " "}

KindOf(c) ==
    CASE c = ";" -> "Semicolon"
      [] c = "g" -> "GenerateKeyword"
      [] c = "h" -> "EndGenerateKeyword"
      [] c = "a" -> "AssignKeyword"
      [] c = "(" -> "OpenParenthesis"
      [] OTHER -> "CloseParenthesis"

\* The lexer: whitespace becomes trivia of the token that follows it, the EndOfFile
\* token owns the trailing trivia; every token is located in buffer 1.
RECURSIVE Lex(_, _, _, _)
Lex(text, i, trivia, acc) ==
    IF i > Len(text)
    THEN Append(acc, Token("EndOfFile", <<>>, trivia, Loc(1, Len(text))))
    ELSE IF text[i] = " "
         THEN Lex(text, i + 1, Append(trivia, Trivia("Whitespace", <<" ">>, <<>>)), acc)
         ELSE Lex(text, i + 1, <<>>,
                  Append(acc, Token(KindOf(text[i]), <<text[i]>>, trivia, Loc(1, i - 1))))

----------------------------------------------------------------------------
(* ParserBase: peek, consume, expect, skipToken *)

\* the token at index i of the window; reading past the end gives EndOfFile again
peekAt(toks, i) == IF i <= Len(toks) THEN toks[i] ELSE toks[Len(toks)]

\* prependSkippedTokens: the skipped tokens become the first trivia of the token
prependSkippedTokens(token, skippedTokens) ==
    IF skippedTokens = <<>> THEN token
    ELSE [token EXCEPT !.trivia = <<Trivia("SkippedTokens", <<>>, skippedTokens)>> \o @]

\* consume(): the current token, with the pending skipped tokens in front of its trivia
consume(toks, i, skippedTokens) ==
    [token |-> prependSkippedTokens(peekAt(toks, i), skippedTokens), pos |-> i + 1]

\* expect(kind): the current token when it has the kind, else a missing token
expect(toks, i, skippedTokens, kind) ==
    IF peekAt(toks, i).kind = kind THEN consume(toks, i, skippedTokens)
    ELSE [token |-> prependSkippedTokens(MissingToken(kind, peekAt(toks, i).loc),
                                         skippedTokens),
          pos |-> i]

\* Parser::parseExpression on nested parentheses, with its depth guard: the tokens
\* consumed, the next position, and whether the recursion limit was passed
RECURSIVE parseExpression(_, _, _)
parseExpression(toks, i, depth) ==
    IF depth > MaxParseDepth THEN [threw |-> TRUE, children |-> <<>>, pos |-> i]
    ELSE IF peekAt(toks, i).kind = "OpenParenthesis"
         THEN LET open == consume(toks, i, <<>>)
                  inner == parseExpression(toks, open.pos, depth + 1)
                  close == expect(toks, inner.pos, <<>>, "CloseParenthesis")
              IN  [threw |-> inner.threw,
                   children |-> <<open.token,
                                  SyntaxNode("ParenthesizedExpression", inner.children),
                                  close.token>>,
                   pos |-> close.pos]
         ELSE [threw |-> FALSE,
               children |-> <<MissingToken("Identifier", peekAt(toks, i).loc)>>,
               pos |-> i]

\* SyntaxFacts: which members may stand in a compilation unit / a generate region
isAllowedInCompilationUnit(kind) == kind \in {"EmptyMember"}
isAllowedInGenerate(kind) == kind \in {"EmptyMember", "GenerateRegion", "ContinuousAssign"}

----------------------------------------------------------------------------
(* Parser: parseCompilationUnit, parseMemberList, parseMember *)

\* one activation of parseMemberList; keyword is the generate keyword that opened it
Frame(endKind, parentKind, keyword) ==
    [endKind |-> endKind, parentKind |-> parentKind, members |-> <<>>, errored |-> FALSE,
     keyword |-> keyword]

Top == stack[Len(stack)]

peek == peekAt(tokens, pos)

SyntaxList(children) == SyntaxNode("SyntaxList", children)

compilationUnit(members, endOfFile) ==
    SyntaxNode("CompilationUnit", <<SyntaxList(members), endOfFile>>)

generateRegion(keyword, members, endgenerate) ==
    SyntaxNode("GenerateRegion",
               <<SyntaxList(<<>>), keyword, SyntaxList(members), endgenerate>>)

emptyMember(semi) == SyntaxNode("EmptyMember", <<SyntaxList(<<>>), SyntaxList(<<>>), semi>>)

continuousAssign(assign, assignments, semi) ==
    SyntaxNode("ContinuousAssign",
               <<SyntaxList(<<>>), assign, SyntaxList(assignments), semi>>)

\* addDiag(code, location): the diagnostic it adds
Diagnostic(code, location) == [code |-> code, location |-> location]

\* the diagnostics checkMemberAllowed adds (currentDefinitionKind is Unknown here), at
\* member.sourceRange().start(), the location of the member's first token
checkMemberAllowed(member, parentKind) ==
    LET first == IF member.kind = "EmptyMember" THEN member.children[3]
                 ELSE member.children[2]
    IN  IF member.kind = "EmptyMember" /\ member.children[3].missing THEN <<>>
        ELSE IF parentKind = "CompilationUnit"
        THEN IF isAllowedInCompilationUnit(member.kind) THEN <<>>
             ELSE <<Diagnostic("NotAllowedInCU", first.loc)>>
        ELSE IF isAllowedInGenerate(member.kind) THEN <<>>
             ELSE <<Diagnostic("NotAllowedInGenerate", first.loc)>>

\* members.append(member) without the "errored = false" that follows it
AppendMemberKeepErrored(st, member) ==
    [st EXCEPT ![Len(st)].members = Append(@, member)]

\* members.append(member); errored = false; in the innermost activation
AppendMember(st, member) ==
    [st EXCEPT ![Len(st)].members = Append(@, member), ![Len(st)].errored = FALSE]

\* parseCompilationUnit enters parseMemberList(EndOfFile, eofToken, CompilationUnit)
parseCompilationUnit ==
    /\ ppc = "start"
    /\ stack' = <<Frame("EndOfFile", "CompilationUnit", EmptyToken)>>
    /\ ppc' = "list"
    /\ UNCHANGED <<semVars, smVars, tokens, pos, skipped, tree, eofToken, diags, source, printed>>

\* the loop of parseMemberList goes on: the current token ends neither the file nor the list
InList == ppc = "list" /\ peek.kind # "EndOfFile" /\ peek.kind # Top.endKind

\* The loop of parseMemberList breaks: endToken = expect(endKind). The outermost list
\* ends parseCompilationUnit; an inner one ends the generate region of parseMember,
\* which the enclosing parseMemberList appends.
parseMemberListEnd ==
    /\ ppc = "list"
    /\ peek.kind = "EndOfFile" \/ peek.kind = Top.endKind
    /\ LET endToken == expect(tokens, pos, skipped, Top.endKind) IN
       /\ pos' = endToken.pos
       /\ skipped' = <<>>
       /\ IF Len(stack) = 1
          THEN /\ eofToken' = endToken.token
               /\ tree' = compilationUnit(Top.members, endToken.token)
               /\ stack' = <<>>
               /\ ppc' = "parsed"
               /\ UNCHANGED diags
          ELSE LET member == generateRegion(Top.keyword, Top.members, endToken.token)
                   outer == SubSeq(stack, 1, Len(stack) - 1)
               IN  /\ stack' = AppendMember(outer, member)
                   /\ diags' = diags \o
                               checkMemberAllowed(member, outer[Len(outer)].parentKind)
                   /\ UNCHANGED <<tree, eofToken, ppc>>
    /\ UNCHANGED <<semVars, smVars, tokens, source, printed>>

\* parseMember, case Semicolon: factory.emptyMember(attributes, nullptr, consume())
parseMemberEmpty ==
    /\ InList
    /\ peek.kind = "Semicolon"
    /\ LET semi == consume(tokens, pos, skipped)
           member == emptyMember(semi.token)
       IN  /\ pos' = semi.pos
           /\ stack' = AppendMember(stack, member)
           /\ diags' = diags \o checkMemberAllowed(member, Top.parentKind)
    /\ skipped' = <<>>
    /\ UNCHANGED <<semVars, smVars, tokens, tree, eofToken, ppc, source, printed>>

\* parseMember, case GenerateKeyword: consume the keyword, enter the nested parseMemberList
parseMemberGenerate ==
    /\ InList
    /\ peek.kind = "GenerateKeyword"
    /\ LET keyword == consume(tokens, pos, skipped) IN
       /\ pos' = keyword.pos
       /\ stack' = Append(stack, Frame("EndGenerateKeyword", "GenerateRegion", keyword.token))
    /\ skipped' = <<>>
    /\ UNCHANGED <<semVars, smVars, tokens, tree, eofToken, diags, ppc, source, printed>>

\* parseMember, case AssignKeyword: parseContinuousAssign, the expression within the limit
parseMemberAssign ==
    /\ InList
    /\ peek.kind = "AssignKeyword"
    /\ LET assign == consume(tokens, pos, skipped)
           expr == parseExpression(tokens, assign.pos, 0)
           semi == expect(tokens, expr.pos, <<>>, "Semicolon")
           member == continuousAssign(assign.token, expr.children, semi.token)
       IN  /\ ~expr.threw
           /\ pos' = semi.pos
           /\ stack' = AppendMember(stack, member)
           /\ diags' = diags \o
                       <<Diagnostic("ExpectedContinuousAssignment", expr.children[1].loc)>> \o
                       checkMemberAllowed(member, Top.parentKind)
    /\ skipped' = <<>>
    /\ UNCHANGED <<semVars, smVars, tokens, tree, eofToken, ppc, source, printed>>

\* parseMember, case AssignKeyword, the expression deeper than the limit: the guard throws
\* RecursionException, which parseCompilationUnit catches:
\* return factory.compilationUnit(nullptr, eofToken)
parseMemberTooDeep ==
    /\ InList
    /\ peek.kind = "AssignKeyword"
    /\ LET assign == consume(tokens, pos, skipped)
           expr == parseExpression(tokens, assign.pos, 0)
       IN  /\ expr.threw
           /\ pos' = expr.pos
           /\ diags' = Append(diags, Diagnostic("ParseTreeTooDeep",
                                                peekAt(tokens, expr.pos).loc))
    /\ skipped' = <<>>
    /\ stack' = <<>>
    /\ tree' = compilationUnit(<<>>, eofToken)
    /\ ppc' = "parsed"
    /\ UNCHANGED <<semVars, smVars, tokens, eofToken, source, printed>>

\* parseMember returns nullptr: skipToken, with ExpectedMember unless already errored
parseMemberSkip ==
    /\ InList
    /\ peek.kind \notin {"Semicolon", "GenerateKeyword", "AssignKeyword"}
    /\ skipped' = Append(skipped, peek)
    /\ pos' = pos + 1
    /\ diags' = IF Top.errored THEN diags
                ELSE Append(diags, Diagnostic("ExpectedMember", peek.loc))
    /\ stack' = [stack EXCEPT ![Len(stack)].errored = TRUE]
    /\ UNCHANGED <<semVars, smVars, tokens, tree, eofToken, ppc, source, printed>>

----------------------------------------------------------------------------
(* SyntaxPrinter (constructed with a source manager; squashNewlines off) *)

\* the flags printFile sets, the others at their defaults
printFileFlags ==
    [includeTrivia |-> TRUE, includeSkipped |-> TRUE, includeDirectives |-> TRUE,
     squashNewlines |-> FALSE, includeMissing |-> FALSE, includeComments |-> TRUE,
     expandMacros |-> FALSE, expandIncludes |-> FALSE]

\* SyntaxPrinter::append with squashNewlines off
append(buffer, text) == buffer \o text

\* SyntaxPrinter::shouldPrint(SourceLocation)
shouldPrint(flags, loc) ==
    IF isMacroLoc(loc)
    THEN IF ~flags.expandMacros THEN FALSE
         ELSE IF flags.expandIncludes THEN TRUE
              ELSE ~isIncludedFileLoc(loc)
    ELSE IF isIncludedFileLoc(loc) THEN flags.expandIncludes
         ELSE TRUE

\* Trivia::getExplicitLocation: skipped tokens are located at their first token
getExplicitLocation(trivia) ==
    IF trivia.kind = "SkippedTokens" /\ trivia.tokens # <<>>
    THEN [has |-> TRUE, loc |-> trivia.tokens[1].loc]
    ELSE [has |-> FALSE, loc |-> DefaultLoc]

RECURSIVE printTrivia(_, _, _)
RECURSIVE printToken(_, _, _)
RECURSIVE printTokens(_, _, _, _)
RECURSIVE printTrivias(_, _, _, _)
RECURSIVE printLeading(_, _, _, _, _, _)
RECURSIVE printChildren(_, _, _, _)

\* SyntaxPrinter::print(Trivia)
printTrivia(flags, buffer, trivia) ==
    CASE trivia.kind = "SkippedTokens" ->
            IF flags.includeSkipped THEN printTokens(flags, buffer, trivia.tokens, 1)
            ELSE buffer
      [] trivia.kind = "DisabledText" ->
            IF flags.includeSkipped THEN append(buffer, trivia.text) ELSE buffer
      [] trivia.kind \in {"LineComment", "BlockComment"} /\ ~flags.includeComments -> buffer
      [] OTHER -> append(buffer, trivia.text)

\* for (Token t : trivia.getSkippedTokens()) print(t);
printTokens(flags, buffer, toks, i) ==
    IF i > Len(toks) THEN buffer
    ELSE printTokens(flags, printToken(flags, buffer, toks[i]), toks, i + 1)

\* for (auto t : pending) print(*t);
printTrivias(flags, buffer, pending, i) ==
    IF i > Len(pending) THEN buffer
    ELSE printTrivias(flags, printTrivia(flags, buffer, pending[i]), pending, i + 1)

\* the trivia loop of print(Token) with a source manager
printLeading(flags, buffer, trivia, i, pending, excluded) ==
    IF i > Len(trivia)
    THEN IF ~excluded THEN printTrivias(flags, buffer, pending, 1) ELSE buffer
    ELSE LET pend == Append(pending, trivia[i])
             loc == getExplicitLocation(trivia[i])
         IN  IF loc.has
             THEN LET b == IF shouldPrint(flags, loc.loc)
                           THEN printTrivias(flags, buffer, pend, 1)
                           ELSE IF trivia[i].kind \in {"Directive", "SkippedSyntax",
                                                       "SkippedTokens"}
                                THEN printTrivia(flags, buffer, trivia[i])
                                ELSE buffer
                  IN  printLeading(flags, b, trivia, i + 1, <<>>, excluded)
             ELSE printLeading(flags, buffer, trivia, i + 1, pend, excluded)

\* SyntaxPrinter::print(Token)
printToken(flags, buffer, token) ==
    LET excluded == ~shouldPrint(flags, token.loc)
        b == IF flags.includeTrivia
             THEN printLeading(flags, buffer, token.trivia, 1, <<>>, excluded)
             ELSE buffer
    IN  IF ~excluded /\ (flags.includeMissing \/ ~token.missing)
        THEN append(b, token.text)
        ELSE b

\* SyntaxPrinter::print(const SyntaxNode&): child nodes, and child tokens that are set
printChildren(flags, buffer, children, i) ==
    IF i > Len(children) THEN buffer
    ELSE LET child == children[i]
             b == IF child.node THEN printChildren(flags, buffer, child.children, 1)
                  ELSE IF child.valid THEN printToken(flags, buffer, child)
                  ELSE buffer
         IN  printChildren(flags, b, children, i + 1)

printNode(flags, buffer, node) == printChildren(flags, buffer, node.children, 1)

\* SyntaxPrinter::print(const SyntaxTree&): the root, and the EndOfFile token of the
\* metadata when the root is no compilation unit
printTree(flags, buffer, root, metaEof) ==
    LET b == printNode(flags, buffer, root) IN
    IF root.kind # "CompilationUnit" /\ metaEof.valid THEN printToken(flags, b, metaEof)
    ELSE b

\* SyntaxPrinter::printFile
printFile ==
    /\ ppc = "parsed"
    /\ printed' = printTree(printFileFlags, <<>>, tree, eofToken)
    /\ ppc' = "printed"
    /\ UNCHANGED <<semVars, smVars, tokens, pos, skipped, stack, tree, eofToken, diags, source>>

----------------------------------------------------------------------------
(* Parsing and printing one source text (SpecParse) *)

RECURSIVE SourcesOfLen(_)
SourcesOfLen(n) ==
    IF n = 0 THEN {<<>>}
    ELSE {Append(text, c) : text \in SourcesOfLen(n - 1), c \in SourceChars}

Sources == UNION {SourcesOfLen(n) : n \in 0..MaxInputLen}

\* the text is buffer 1 of the manager, lexed, and the parser is about to start
InitParse ==
    \E text \in Sources :
        /\ bufferEntries = <<FileInfo(0, DefaultLoc), FileInfo(1, DefaultLoc)>>
        /\ fileData = <<FileData("source.sv", TerminatedCopy(text))>>
        /\ lookupCache = <<>>
        /\ userFileLookup = MapAssign(<<>>, "source.sv", 1)
        /\ unnamedBufferCount = 0
        /\ pc = [t \in Threads |-> "idle"]
        /\ frame = [t \in Threads |-> IdleFrame]
        /\ ret = [t \in Threads |-> NoResult]
        /\ calls = [t \in Threads |-> 0]
        /\ handedOut = <<1>>
        /\ source = text
        /\ tokens = Lex(text, 1, <<>>, <<>>)
        /\ pos = 1
        /\ skipped = <<>>
        /\ stack = <<>>
        /\ tree = <<>>
        /\ eofToken = EmptyToken
        /\ diags = <<>>
        /\ ppc = "start"
        /\ printed = <<>>
        /\ SemanticsIdle

NextParse ==
    \/ parseCompilationUnit
    \/ parseMemberListEnd
    \/ parseMemberEmpty
    \/ parseMemberGenerate
    \/ parseMemberAssign
    \/ parseMemberTooDeep
    \/ parseMemberSkip
    \/ printFile

SpecParse == InitParse /\ [][NextParse]_vars

----------------------------------------------------------------------------
(* Properties of parsing and printing (SpecParse) *)

\* C10: for every source text, those with tokens the parser skips and those that pass
\* the recursion limit included, printFile of the parsed tree gives the text back.
C10_PrintFileRoundTrip == ppc = "printed" => printed = source

\* The step hands the current token to skipToken: the member parser returned null at it.
SkipsToken == skipped' = Append(skipped, peek)

\* The ExpectedMember diagnostics among ds
ExpectedMembers(ds) == SelectSeq(ds, LAMBDA d : d.code = "ExpectedMember")

\* C14: a token at which the member parser returns null gets an ExpectedMember diagnostic
\* at its location exactly when it is the first of its run, that is, when the token
\* before it was not skipped in the same way (the skipped tokens not yet attached are
\* the run so far); the later tokens of the run add none, and no other step adds one.
C14_OneExpectedMemberPerRun ==
    [][ IF SkipsToken
        THEN diags' = IF skipped = <<>>
                      THEN Append(diags, Diagnostic("ExpectedMember", peek.loc))
                      ELSE diags
        ELSE ExpectedMembers(diags') = ExpectedMembers(diags) ]_vars

\* Two runs of skipped tokens with a parsed member between them and a run of two tokens:
\* two ExpectedMember diagnostics for three skipped tokens.
C14_Witness ==
    /\ ppc = "parsed"
    /\ source = <<")", ";", ")", ")">>
    /\ Len(ExpectedMembers(diags)) = 2
    /\ diags[1].location = tokens[1].loc
    /\ diags[2].location = tokens[3].loc

----------------------------------------------------------------------------
(* Types and their relations (Type.cpp) *)

\* A null Type pointer
NoType == [id |-> 0, kind |-> "None"]

\* A type object.  id stands for its address (the code compares Type pointers), syntax
\* for the syntax node it was created from (0 = none).  The integral fields are those
\* of IntegralType; range is getBitVectorRange() for integral types and the array range
\* for fixed-size unpacked arrays.
Type(id, kind, syntax) ==
    [id |-> id, kind |-> kind, syntax |-> syntax,
     isSigned |-> FALSE, isFourState |-> FALSE, bitWidth |-> 0, range |-> <<0, 0>>,
     elementType |-> NoType, indexType |-> NoType,
     scopeKind |-> "None", baseType |-> NoType, values |-> <<>>,
     baseClass |-> NoType, interfaces |-> <<>>,
     floatKind |-> "None", iface |-> 0, modport |-> 0, targetType |-> NoType]

\* Type::getCanonicalType with Type::resolveCanonical: follow aliases to their target
RECURSIVE getCanonicalType(_)
getCanonicalType(t) ==
    IF t.kind = "TypeAlias" THEN getCanonicalType(t.targetType) ELSE t

IntegralKinds == {"PredefinedIntegerType", "ScalarType", "PackedArrayType", "EnumType"}
UnpackedArrayKinds == {"FixedSizeUnpackedArrayType", "DynamicArrayType",
                       "AssociativeArrayType", "QueueType"}

isIntegral(t) == getCanonicalType(t).kind \in IntegralKinds

isArray(t) == getCanonicalType(t).kind \in UnpackedArrayKinds \cup {"PackedArrayType"}

isSimpleBitVector(t) ==
    LET ct == getCanonicalType(t)
    IN  \/ ct.kind \in {"PredefinedIntegerType", "ScalarType"}
        \/ /\ ct.kind = "PackedArrayType"
           /\ getCanonicalType(ct.elementType).kind = "ScalarType"

\* ConstantRange::width
RangeWidth(range) ==
    (IF range[1] > range[2] THEN range[1] - range[2] ELSE range[2] - range[1]) + 1

RECURSIVE isMatching(_, _)

isSameEnum(le, re) ==
    IF le.scopeKind = "None" \/ re.scopeKind = "None" THEN FALSE
    ELSE IF le.scopeKind # "CompilationUnit" THEN FALSE
    ELSE IF re.scopeKind # "CompilationUnit" THEN FALSE
    ELSE IF ~isMatching(le.baseType, re.baseType) THEN FALSE
    ELSE /\ Len(le.values) = Len(re.values)
         /\ \A i \in 1..Len(le.values) :
                /\ le.values[i].name = re.values[i].name
                /\ ~le.values[i].bad /\ ~re.values[i].bad
                /\ le.values[i].value = re.values[i].value

isMatching(lhs, rhs) ==
    LET l == getCanonicalType(lhs)
        r == getCanonicalType(rhs)
    IN  IF l.id = r.id \/ (l.syntax # 0 /\ l.syntax = r.syntax) THEN TRUE
        ELSE IF l.kind = "FloatingType" /\ r.kind = "FloatingType"
        THEN /\ l.floatKind \in {"Real", "RealTime"}
             /\ r.floatKind \in {"Real", "RealTime"}
        ELSE IF /\ isSimpleBitVector(l) /\ isSimpleBitVector(r)
                /\ (l.kind # "PackedArrayType" \/ r.kind # "PackedArrayType")
        THEN /\ l.isSigned = r.isSigned
             /\ l.isFourState = r.isFourState
             /\ l.range = r.range
        ELSE IF isArray(l) /\ isArray(r)
        THEN IF l.kind # r.kind \/ ~isMatching(l.elementType, r.elementType) THEN FALSE
             ELSE IF l.kind = "PackedArrayType" THEN l.range = r.range
             ELSE IF l.kind = "FixedSizeUnpackedArrayType" THEN l.range = r.range
             ELSE IF l.kind = "AssociativeArrayType"
             THEN IF l.indexType # NoType
                  THEN r.indexType # NoType /\ isMatching(l.indexType, r.indexType)
                  ELSE r.indexType = NoType
             ELSE TRUE
        ELSE IF l.kind = "EnumType" /\ r.kind = "EnumType" THEN isSameEnum(l, r)
        ELSE IF l.kind = "VirtualInterfaceType" /\ r.kind = "VirtualInterfaceType"
        THEN l.iface = r.iface /\ l.modport = r.modport
        ELSE FALSE

RECURSIVE isEquivalent(_, _)

\* isEquivalent without the "else if (ri) return false" arm
sameIndexTypeLeftOnly(li, ri) ==
    li # NoType => (ri # NoType /\ isEquivalent(li, ri))

\* isEquivalent, the associative-array index check: both without an index type, or
\* both with equivalent index types
sameIndexType(li, ri) ==
    IF li # NoType THEN ri # NoType /\ isEquivalent(li, ri) ELSE ri = NoType

isEquivalent(lhs, rhs) ==
    LET l == getCanonicalType(lhs)
        r == getCanonicalType(rhs)
    IN  IF isMatching(l, r) THEN TRUE
        ELSE IF isIntegral(l) /\ isIntegral(r) /\ l.kind # "EnumType" /\ r.kind # "EnumType"
        THEN /\ l.isSigned = r.isSigned
             /\ l.isFourState = r.isFourState
             /\ l.bitWidth = r.bitWidth
        ELSE IF /\ l.kind = "FixedSizeUnpackedArrayType"
                /\ r.kind = "FixedSizeUnpackedArrayType"
        THEN /\ RangeWidth(l.range) = RangeWidth(r.range)
             /\ isEquivalent(l.elementType, r.elementType)
        ELSE IF l.kind \in UnpackedArrayKinds /\ l.kind = r.kind
        THEN IF l.kind = "AssociativeArrayType" /\ ~sameIndexType(l.indexType, r.indexType)
             THEN FALSE
             ELSE isEquivalent(l.elementType, r.elementType)
        ELSE FALSE

\* Type::isDerivedFrom, from the loop on: d walks up the base classes
RECURSIVE walkBaseClasses(_, _)
walkBaseClasses(d, b) ==
    IF d # NoType /\ d.kind = "ClassType"
    THEN LET next == IF d.baseClass = NoType THEN NoType
                     ELSE getCanonicalType(d.baseClass)
         IN  IF next.id = b.id THEN TRUE ELSE walkBaseClasses(next, b)
    ELSE d # NoType /\ d.kind = "ErrorType"

isDerivedFrom(derived, base) ==
    LET d == getCanonicalType(derived)
        b == getCanonicalType(base)
    IN  IF b.kind # "ClassType" THEN FALSE ELSE walkBaseClasses(d, b)

implements(class, ifaceClass) ==
    LET c == getCanonicalType(class)
    IN  IF c.kind # "ClassType" THEN FALSE
        ELSE \E i \in 1..Len(c.interfaces) : isMatching(c.interfaces[i], ifaceClass)

isAssignmentCompatible(lhs, rhs) ==
    LET l == getCanonicalType(lhs)
        r == getCanonicalType(rhs)
    IN  IF isEquivalent(l, r) THEN TRUE
        ELSE IF (isIntegral(l) /\ l.kind # "EnumType") \/ l.kind = "FloatingType"
        THEN isIntegral(r) \/ r.kind = "FloatingType" \/ r.kind = "UnboundedType"
        ELSE IF l.kind \in UnpackedArrayKinds /\ r.kind \in UnpackedArrayKinds
        THEN IF l.kind = "AssociativeArrayType" \/ r.kind = "AssociativeArrayType"
             THEN FALSE
             ELSE IF l.kind = r.kind /\ l.kind = "FixedSizeUnpackedArrayType" THEN FALSE
             ELSE isEquivalent(l.elementType, r.elementType)
        ELSE IF l.kind = "ClassType" /\ r.kind = "NullType" THEN TRUE
        ELSE IF l.kind = "ClassType" /\ isDerivedFrom(r, l) THEN TRUE
        ELSE IF l.kind = "ClassType" /\ implements(r, l) THEN TRUE
        ELSE IF l.kind = "VirtualInterfaceType"
        THEN IF r.kind = "NullType" THEN TRUE
             ELSE IF r.kind # "VirtualInterfaceType" THEN FALSE
             ELSE IF l.iface # r.iface THEN FALSE
             ELSE l.modport = r.modport \/ (l.modport # 0 /\ r.modport = 0)
        ELSE IF l.kind \in {"CHandleType", "EventType"} THEN r.kind = "NullType"
        ELSE FALSE

----------------------------------------------------------------------------
(* The type relations applied to operands drawn from a universe of types (SpecType) *)

\* The types a design can hold at once.  packedW4 and packedW8 come from one declaration
\* "logic [W-1:0]" elaborated in two instances with W = 4 and W = 8: two type objects
\* made from the same syntax node.  enumE and enumF are one enum of an included header
\* elaborated in two compilation units.
TypeUniverse ==
    LET int == [Type(1, "PredefinedIntegerType", 0) EXCEPT
                    !.isSigned = TRUE, !.bitWidth = 32, !.range = <<31, 0>>]
        logic == [Type(3, "ScalarType", 0) EXCEPT !.bitWidth = 1, !.isFourState = TRUE]
        signedBit == [Type(5, "ScalarType", 0) EXCEPT !.bitWidth = 1, !.isSigned = TRUE]
        packed(id, syn, elem, left, right) ==
            [Type(id, "PackedArrayType", syn) EXCEPT
                !.elementType = elem, !.isSigned = elem.isSigned,
                !.isFourState = elem.isFourState, !.range = <<left, right>>,
                !.bitWidth = RangeWidth(<<left, right>>)]
        packedW4 == packed(6, 1, logic, 3, 0)
        packedW8 == packed(7, 1, logic, 7, 0)
        packed8 == packed(8, 2, logic, 7, 0)
        packedInt == packed(10, 4, signedBit, 31, 0)
        enum(id, syn) ==
            [Type(id, "EnumType", syn) EXCEPT
                !.isSigned = TRUE, !.bitWidth = 32, !.range = <<31, 0>>,
                !.scopeKind = "CompilationUnit", !.baseType = int,
                !.values = <<[name |-> "A", value |-> 0, bad |-> FALSE]>>]
        enumE == enum(11, 5)
        enumF == enum(12, 6)
        assoc(id, index) ==
            [Type(id, "AssociativeArrayType", 0) EXCEPT
                !.elementType = int, !.indexType = index]
        fixed(id, elem, left, right) ==
            [Type(id, "FixedSizeUnpackedArrayType", 0) EXCEPT
                !.elementType = elem, !.range = <<left, right>>]
        ifaceClass == Type(17, "ClassType", 7)
        classC == [Type(18, "ClassType", 8) EXCEPT !.interfaces = <<ifaceClass>>]
        classD == [Type(19, "ClassType", 9) EXCEPT !.baseClass = classC]
        error == Type(21, "ErrorType", 0)
    IN  { int, logic, signedBit, packedW4, packedW8, packed8, packedInt,
          enumE, enumF,
          assoc(13, NoType), assoc(14, int),
          fixed(15, int, 0, 1),
          classC, classD, error,
          Type(22, "NullType", 0),
          [Type(27, "TypeAlias", 11) EXCEPT !.targetType = int] }

\* Neither the SourceManager nor the parser is in use.
SourceIdle == SourceManager([t \in Threads |-> 0]) /\ ParserIdle

InitType ==
    /\ SourceIdle
    /\ SemanticsIdleExcept("types")
    /\ types \in TypeUniverse \X TypeUniverse \X TypeUniverse
    /\ verdict = <<>>

Call(op, l, r, val) == [op |-> op, l |-> l, r |-> r, val |-> val]

callIsMatching ==
    \E l, r \in 1..3 :
        /\ verdict' = Call("isMatching", l, r, isMatching(types[l], types[r]))
        /\ UNCHANGED <<smVars, parseVars, types>>
        /\ OthersUnchanged("types")

callIsEquivalent ==
    \E l, r \in 1..3 :
        /\ verdict' = Call("isEquivalent", l, r, isEquivalent(types[l], types[r]))
        /\ UNCHANGED <<smVars, parseVars, types>>
        /\ OthersUnchanged("types")

callIsAssignmentCompatible ==
    \E l, r \in 1..3 :
        /\ verdict' = Call("isAssignmentCompatible", l, r,
                           isAssignmentCompatible(types[l], types[r]))
        /\ UNCHANGED <<smVars, parseVars, types>>
        /\ OthersUnchanged("types")

NextType == callIsMatching \/ callIsEquivalent \/ callIsAssignmentCompatible

SpecType == InitType /\ [][NextType]_vars

\* The operands of the last call
Lhs == types[verdict.l]
Rhs == types[verdict.r]
Called(op) == verdict # <<>> /\ verdict.op = op

\* C11: isMatching is an equivalence relation: on the operands a, b, c it relates a to
\* itself, b to a whenever a to b, and a to c whenever a to b and b to c.
C11_MatchingIsEquivalence ==
    /\ isMatching(types[1], types[1])
    /\ isMatching(types[1], types[2]) => isMatching(types[2], types[1])
    /\ (isMatching(types[1], types[2]) /\ isMatching(types[2], types[3]))
           => isMatching(types[1], types[3])

\* C12: isEquivalent relates every type to itself and gives the same answer for (a, b)
\* as for (b, a), enum / integral pairs and associative arrays with and without an index
\* type included.
C12_EquivalentReflexiveSymmetric ==
    /\ isEquivalent(types[1], types[1])
    /\ isEquivalent(types[1], types[2]) = isEquivalent(types[2], types[1])
    /\ Called("isEquivalent") =>
           /\ verdict.val = isEquivalent(Rhs, Lhs)
           /\ verdict.l = verdict.r => verdict.val

\* isEquivalent has been asked about an associative array with an index type on the
\* left and one without on the right, with an enum as third operand beside them.
C12_Witness ==
    /\ Called("isEquivalent")
    /\ Lhs.kind = "AssociativeArrayType" /\ Lhs.indexType = NoType
    /\ Rhs.kind = "AssociativeArrayType" /\ Rhs.indexType # NoType
    /\ ~verdict.val
    /\ types[3].kind = "EnumType"
    /\ ~isEquivalent(types[3], Rhs.indexType)

\* C13: the error type is assignment compatible with every type, in both directions.
C13_ErrorCompatibleWithAll ==
    \A i, j \in 1..3 :
        types[i].kind = "ErrorType" =>
            /\ isAssignmentCompatible(types[i], types[j])
            /\ isAssignmentCompatible(types[j], types[i])

----------------------------------------------------------------------------
(* Class member qualifiers: Parser::checkClassQualifiers (SpecQualifiers) *)

MaxQualifiers == 3

QualifierKinds == {"RandKeyword", "RandCKeyword", "ConstKeyword", "LocalKeyword",
                   "ProtectedKeyword", "StaticKeyword", "VirtualKeyword", "PureKeyword",
                   "ExternKeyword"}

\* The exclusion groups of checkClassQualifiers, in the order it checks them
QualifierGroups == <<{"RandKeyword", "RandCKeyword", "ConstKeyword"},
                     {"LocalKeyword", "ProtectedKeyword"},
                     {"StaticKeyword", "VirtualKeyword"}>>

\* The lambda checkConflict: lastSeen and alreadyErrored after the call, and the
\* diagnostics it added
checkConflict(curr, isKind, lastSeen, alreadyErrored) ==
    IF isKind /\ lastSeen.valid
    THEN [lastSeen |-> lastSeen, alreadyErrored |-> TRUE,
          diags |-> IF alreadyErrored THEN <<>>
                    ELSE <<Diagnostic("QualifierConflict", curr.loc)>>]
    ELSE [lastSeen |-> IF isKind THEN curr ELSE lastSeen,
          alreadyErrored |-> alreadyErrored, diags |-> <<>>]

\* The locals of checkClassQualifiers before the loop; next is the loop's position
\* (0 once the function has returned)
QualifierLocalsAtEntry ==
    [next |-> 1, qualifierSet |-> {}, lastRand |-> EmptyToken, lastVisibility |-> EmptyToken,
     lastStaticOrVirtual |-> EmptyToken, lastPure |-> EmptyToken, isVirtual |-> FALSE,
     errorDup |-> FALSE, errorRand |-> FALSE, errorVisibility |-> FALSE,
     errorStaticVirtual |-> FALSE, errorFirst |-> FALSE, errorPure |-> FALSE, count |-> 0]

InitQualifiers ==
    /\ SourceIdle
    /\ SemanticsIdleExcept("qualifiers")
    /\ \E n \in 0..MaxQualifiers :
           \E kinds \in [1..n -> QualifierKinds] :
               qualifiers = [i \in 1..n |-> Token(kinds[i], <<kinds[i]>>, <<>>, Loc(1, i))]
    /\ isConstraint \in BOOLEAN
    /\ qualifierLocals = QualifierLocalsAtEntry

\* One pass of the loop body of checkClassQualifiers, for the qualifier t
checkClassQualifiersLoop ==
    /\ qualifierLocals # <<>>
    /\ qualifierLocals.next \in 1..Len(qualifiers)
    /\ LET v == qualifierLocals
           t == qualifiers[v.next]
           counted == [v EXCEPT !.next = @ + 1, !.count = @ + 1,
                                !.isVirtual = @ \/ t.kind = "VirtualKeyword"]
       IN  IF t.kind \in v.qualifierSet
           THEN /\ diags' = IF v.errorDup THEN diags
                            ELSE Append(diags, Diagnostic("DuplicateQualifier", t.loc))
                /\ qualifierLocals' = [counted EXCEPT !.errorDup = TRUE]
           ELSE LET inserted == [counted EXCEPT !.qualifierSet = @ \cup {t.kind}] IN
                IF inserted.count > 1 /\ t.kind \in {"PureKeyword", "ExternKeyword"}
                THEN /\ diags' = IF v.errorFirst THEN diags
                                 ELSE Append(diags, Diagnostic("QualifierNotFirst", t.loc))
                     /\ qualifierLocals' = [inserted EXCEPT !.errorFirst = TRUE]
                ELSE IF /\ t.kind # "PureKeyword" /\ v.lastPure.valid
                        /\ t.kind # "VirtualKeyword" /\ ~isConstraint
                THEN /\ diags' = IF v.errorPure THEN diags
                                 ELSE Append(diags, Diagnostic("PureRequiresVirtual", t.loc))
                     /\ qualifierLocals' = [inserted EXCEPT !.errorPure = TRUE]
                ELSE LET pure == [inserted EXCEPT
                                     !.lastPure = IF t.kind = "PureKeyword" THEN t
                                                  ELSE EmptyToken]
                         rand == checkConflict(t, t.kind \in QualifierGroups[1],
                                               pure.lastRand, pure.errorRand)
                         visibility == checkConflict(t, t.kind \in QualifierGroups[2],
                                                     pure.lastVisibility,
                                                     pure.errorVisibility)
                         staticVirtual == checkConflict(t, t.kind \in QualifierGroups[3],
                                                        pure.lastStaticOrVirtual,
                                                        pure.errorStaticVirtual)
                     IN  /\ diags' = diags \o rand.diags \o visibility.diags \o
                                     staticVirtual.diags
                         /\ qualifierLocals' =
                                [pure EXCEPT
                                    !.lastRand = rand.lastSeen,
                                    !.errorRand = rand.alreadyErrored,
                                    !.lastVisibility = visibility.lastSeen,
                                    !.errorVisibility = visibility.alreadyErrored,
                                    !.lastStaticOrVirtual = staticVirtual.lastSeen,
                                    !.errorStaticVirtual = staticVirtual.alreadyErrored]
    /\ UNCHANGED <<smVars, tokens, pos, skipped, stack, tree, eofToken, ppc, source, printed,
                   qualifiers, isConstraint>>
    /\ OthersUnchanged("qualifiers")

\* After the loop: a pure left without its virtual, then the function returns
checkClassQualifiersEnd ==
    /\ qualifierLocals # <<>>
    /\ qualifierLocals.next = Len(qualifiers) + 1
    /\ LET v == qualifierLocals IN
       diags' = IF v.lastPure.valid /\ ~v.errorPure /\ ~v.isVirtual /\ ~isConstraint
                THEN Append(diags, Diagnostic("PureRequiresVirtual", v.lastPure.loc))
                ELSE diags
    /\ qualifierLocals' = [qualifierLocals EXCEPT !.next = 0]
    /\ UNCHANGED <<smVars, tokens, pos, skipped, stack, tree, eofToken, ppc, source, printed,
                   qualifiers, isConstraint>>
    /\ OthersUnchanged("qualifiers")

NextQualifiers == checkClassQualifiersLoop \/ checkClassQualifiersEnd

SpecQualifiers == InitQualifiers /\ [][NextQualifiers]_vars

\* The QualifierConflict diagnostics issued at a qualifier of the group
ConflictsOf(group) ==
    SelectSeq(diags, LAMBDA d : /\ d.code = "QualifierConflict"
                                /\ qualifiers[d.location.off].kind \in group)

\* C15: when checkClassQualifiers has returned, every exclusion group of which two
\* different qualifiers occur in the list has exactly one QualifierConflict diagnostic.
C15_ConflictOncePerGroup ==
    (qualifierLocals # <<>> /\ qualifierLocals.next = 0) =>
        \A g \in 1..Len(QualifierGroups) :
            (\E i, j \in 1..Len(qualifiers) :
                 /\ qualifiers[i].kind \in QualifierGroups[g]
                 /\ qualifiers[j].kind \in QualifierGroups[g]
                 /\ qualifiers[i].kind # qualifiers[j].kind)
                => Len(ConflictsOf(QualifierGroups[g])) = 1

----------------------------------------------------------------------------
(* Design element metadata: Parser::parseModule over the preprocessor (SpecModule) *)

MaxPPDirectives == 2

\* The directives that change what the preprocessor reports: the setting and its new value
Directives ==
    { [directive |-> TRUE, setting |-> "defaultNetType", value |-> "None"],
      [directive |-> TRUE, setting |-> "unconnectedDrive", value |-> "Pull1"],
      [directive |-> TRUE, setting |-> "timeScale", value |-> "1ns/1ps"] }

\* The tokens of "module m; ; endmodule"
ModuleText ==
    <<[directive |-> FALSE, kind |-> "ModuleKeyword"],
      [directive |-> FALSE, kind |-> "Identifier"],
      [directive |-> FALSE, kind |-> "Semicolon"],
      [directive |-> FALSE, kind |-> "Semicolon"],
      [directive |-> FALSE, kind |-> "EndModuleKeyword"]>>

\* text from its token i on, each directive d of dirs written after d.gap tokens of text
RECURSIVE WithDirectives(_, _, _)
WithDirectives(text, dirs, i) ==
    IF i > Len(text) THEN <<>>
    ELSE SelectSeq(dirs, LAMBDA d : d.gap = i - 1) \o <<text[i]>> \o
         WithDirectives(text, dirs, i + 1)

\* Preprocessor::next: the directives before the next token take effect, then the token
\* is handed out (EndOfFile when the text is used up)
RECURSIVE ppNext(_, _)
ppNext(input, state) ==
    IF input = <<>> THEN [token |-> [kind |-> "EndOfFile", valid |-> TRUE],
                          input |-> input, state |-> state]
    ELSE IF Head(input).directive
    THEN ppNext(Tail(input), [state EXCEPT ![Head(input).setting] = Head(input).value])
    ELSE [token |-> [kind |-> Head(input).kind, valid |-> TRUE],
          input |-> Tail(input), state |-> state]

\* Metadata::Node{ pp.getDefaultNetType(), pp.getUnconnectedDrive(), pp.getTimeScale() }
Node(pp) ==
    [defaultNetType |-> pp.defaultNetType, unconnectedDrive |-> pp.unconnectedDrive,
     timeScale |-> pp.timeScale]

NoToken == [kind |-> "Unknown", valid |-> FALSE]

InitModule ==
    /\ SourceIdle
    /\ SemanticsIdleExcept("modules")
    /\ \E n \in 0..MaxPPDirectives :
           \E dirs \in [1..n -> Directives], gaps \in [1..n -> 0..(Len(ModuleText) - 1)] :
               ppInput = WithDirectives(ModuleText,
                                        [k \in 1..n |-> [directive |-> TRUE,
                                                         setting |-> dirs[k].setting,
                                                         value |-> dirs[k].value,
                                                         gap |-> gaps[k]]],
                                        1)
    /\ ppState = [defaultNetType |-> "Wire", unconnectedDrive |-> "None",
                  timeScale |-> "none", designElementDepth |-> 0]
    /\ window = NoToken
    /\ moduleLocals = [at |-> "member", node |-> <<>>, atStart |-> <<>>]
    /\ nodeMap = <<>>

\* peek() with nothing in the window: the parser asks the preprocessor for a token
peekToken ==
    /\ moduleLocals # <<>> /\ moduleLocals.at # "done"
    /\ ~window.valid
    /\ LET got == ppNext(ppInput, ppState) IN
       /\ window' = got.token
       /\ ppInput' = got.input
       /\ ppState' = got.state
    /\ UNCHANGED <<smVars, parseVars, moduleLocals, nodeMap>>
    /\ OthersUnchanged("modules")

\* parseMember has peeked a module keyword and calls parseModule, which starts with
\* pp.pushDesignElementStack()
parseModuleEnter ==
    /\ moduleLocals # <<>> /\ moduleLocals.at = "member"
    /\ window.valid /\ window.kind = "ModuleKeyword"
    /\ ppState' = [ppState EXCEPT !.designElementDepth = @ + 1]
    /\ moduleLocals' = [moduleLocals EXCEPT !.at = "ModuleKeyword", !.atStart = Node(ppState)]
    /\ UNCHANGED <<smVars, parseVars, ppInput, window, nodeMap>>
    /\ OthersUnchanged("modules")

\* parseModuleHeader: the keyword, the name and the semicolon, each taken when it is the
\* token peeked (else a missing token is made up); once it has returned, parseModule
\* builds its node from the preprocessor
parseModuleHeader ==
    /\ moduleLocals # <<>>
    /\ moduleLocals.at \in {"ModuleKeyword", "Identifier", "Semicolon"}
    /\ window.valid
    /\ window' = IF window.kind = moduleLocals.at THEN NoToken ELSE window
    /\ moduleLocals' =
           IF moduleLocals.at = "ModuleKeyword" THEN [moduleLocals EXCEPT !.at = "Identifier"]
           ELSE IF moduleLocals.at = "Identifier"
           THEN [moduleLocals EXCEPT !.at = "Semicolon"]
           ELSE [moduleLocals EXCEPT !.at = "body", !.node = Node(ppState)]
    /\ UNCHANGED <<smVars, parseVars, ppInput, ppState, nodeMap>>
    /\ OthersUnchanged("modules")

\* parseMemberList inside the module: an empty member
parseModuleMember ==
    /\ moduleLocals # <<>> /\ moduleLocals.at = "body"
    /\ window.valid /\ window.kind \notin {"EndModuleKeyword", "EndOfFile"}
    /\ window' = NoToken
    /\ UNCHANGED <<smVars, parseVars, ppInput, ppState, moduleLocals, nodeMap>>
    /\ OthersUnchanged("modules")

\* The member list ends: pp.popDesignElementStack(), the declaration is made and
\* meta.nodeMap[&result] = node
parseModuleEnd ==
    /\ moduleLocals # <<>> /\ moduleLocals.at = "body"
    /\ window.valid /\ window.kind \in {"EndModuleKeyword", "EndOfFile"}
    /\ window' = IF window.kind = "EndModuleKeyword" THEN NoToken ELSE window
    /\ ppState' = [ppState EXCEPT !.designElementDepth = @ - 1]
    /\ nodeMap' = Append(nodeMap, moduleLocals.node)
    /\ moduleLocals' = [moduleLocals EXCEPT !.at = "done"]
    /\ UNCHANGED <<smVars, parseVars, ppInput>>
    /\ OthersUnchanged("modules")

NextModule ==
    \/ peekToken
    \/ parseModuleEnter
    \/ parseModuleHeader
    \/ parseModuleMember
    \/ parseModuleEnd

SpecModule == InitModule /\ [][NextModule]_vars

\* C16: the node stored for a module holds the default net type, unconnected drive and
\* time scale the preprocessor had when parseModule was entered, before any token of
\* the header was consumed.
C16_MetadataFromElementStart ==
    (moduleLocals # <<>> /\ moduleLocals.at = "done") => nodeMap[1] = moduleLocals.atStart

----------------------------------------------------------------------------
(* Subroutine symbols: overriding a virtual method (SpecOverride) *)

MaxArgs == 2

TypeById(id) == CHOOSE t \in TypeUniverse : t.id = id

\* A bound expression: its syntax and the context it was bound in.  A null Expression
\* pointer is <<>>.
Expression(syntax, context) ==
    [syntax |-> syntax, context |-> context, sourceRange |-> DefaultLoc]

\* A FormalArgumentSymbol
FormalArgument(name, type, direction, initializer) ==
    [name |-> name, type |-> type, direction |-> direction, initializer |-> initializer,
     location |-> DefaultLoc]

\* A SubroutineSymbol (id stands for its address; 0 is a null pointer).  A function
\* has syntax for its declared return type, a task has none.
Subroutine(id, subroutineKind, returnType, arguments) ==
    [id |-> id, name |-> "f", subroutineKind |-> subroutineKind, returnType |-> returnType,
     typeSyntax |-> IF subroutineKind = "Function" THEN Loc(id, 0) ELSE <<>>,
     arguments |-> arguments, location |-> Loc(id, 1), overrides |-> 0, flags |-> {},
     outOfBlockIndex |-> 0]

\* The formal arguments methods are declared with: a plain "int a", and arguments that
\* differ from it in one respect each
ArgUniverse ==
    { FormalArgument("a", TypeById(1), "In", <<>>),
      FormalArgument("b", TypeById(1), "In", <<>>),
      FormalArgument("", TypeById(1), "In", <<>>),
      FormalArgument("a", TypeById(3), "In", <<>>),
      FormalArgument("a", TypeById(21), "In", <<>>),
      FormalArgument("a", TypeById(1), "Out", <<>>),
      FormalArgument("a", TypeById(1), "In", Expression("k", "declaration")) }

\* The argument lists of the method with the given id, over the arguments of universe
ArgLists(universe, id) ==
    UNION { { [i \in 1..n |->
                  [args[i] EXCEPT
                      !.location = Loc(id, 2 * i),
                      !.initializer = IF @ = <<>> THEN @
                                      ELSE [@ EXCEPT !.sourceRange = Loc(id, 2 * i + 1)]]] :
                args \in [1..n -> universe] } : n \in 0..MaxArgs }

\* int, the classes C and D (D extends C), and the error type
ReturnTypes == { TypeById(1), TypeById(18), TypeById(19), TypeById(21) }

checkVirtualMethodMatch(parent, derived, allowDerivedReturn) ==
    LET retType == derived.returnType
        parentRetType == parent.returnType
        checkArgs[i \in 1..(Len(derived.arguments) + 1)] ==
            IF i > Len(derived.arguments) THEN <<>>
            ELSE LET da == derived.arguments[i]
                     pa == parent.arguments[i]
                 IN  IF da.name # pa.name /\ da.name # "" /\ pa.name # ""
                     THEN <<Diagnostic("VirtualArgNameMismatch", da.location)>>
                     ELSE IF /\ ~isMatching(da.type, pa.type)
                             /\ da.type.kind # "ErrorType" /\ pa.type.kind # "ErrorType"
                     THEN <<Diagnostic("VirtualArgTypeMismatch", da.location)>>
                     ELSE IF da.direction # pa.direction
                     THEN <<Diagnostic("VirtualArgDirectionMismatch", da.location)>>
                     ELSE IF (da.initializer # <<>>) # (pa.initializer # <<>>)
                     THEN IF da.initializer # <<>>
                          THEN <<Diagnostic("VirtualArgNoParentDefault",
                                            da.initializer.sourceRange)>>
                          ELSE <<Diagnostic("VirtualArgNoDerivedDefault", da.location)>>
                     ELSE checkArgs[i + 1]
    IN  IF parent.subroutineKind # derived.subroutineKind
        THEN <<Diagnostic("VirtualKindMismatch", derived.location)>>
        ELSE IF retType.kind = "ErrorType" \/ parentRetType.kind = "ErrorType" THEN <<>>
        ELSE IF /\ ~isMatching(retType, parentRetType)
                /\ \/ ~allowDerivedReturn
                   \/ getCanonicalType(retType).kind # "ClassType"
                   \/ ~isAssignmentCompatible(parentRetType, retType)
        THEN <<Diagnostic("VirtualReturnMismatch",
                          IF derived.typeSyntax # <<>> THEN derived.typeSyntax
                          ELSE derived.location)>>
        ELSE IF Len(derived.arguments) # Len(parent.arguments)
        THEN <<Diagnostic("VirtualArgCountMismatch", derived.location)>>
        ELSE checkArgs[1]

InitOverride ==
    /\ SourceIdle
    /\ SemanticsIdleExcept("methods")
    /\ \E kind \in {"Function", "Task"}, type \in ReturnTypes, args \in ArgLists(ArgUniverse, 1) :
           parentMethod = Subroutine(1, kind, type, args)
    /\ \E kind \in {"Function", "Task"}, type \in ReturnTypes, args \in ArgLists(ArgUniverse, 2) :
           derivedMethod = Subroutine(2, kind, type, args)
    /\ prototypes = <<>>
    /\ outerScope = <<>>
    /\ compilation = <<>>
    /\ returned = <<>>
    /\ scopeDiags = <<>>

\* derivedMethod.setOverride(parentMethod) without "overrides = &parentMethod"
setOverrideUnrecorded ==
    /\ derivedMethod # <<>> /\ parentMethod # <<>>
    /\ scopeDiags = <<>>
    /\ scopeDiags' = scopeDiags \o checkVirtualMethodMatch(parentMethod, derivedMethod, TRUE)
    /\ UNCHANGED <<smVars, parseVars, parentMethod, derivedMethod, prototypes, outerScope,
                   compilation, returned>>
    /\ OthersUnchanged("methods")

\* derivedMethod.setOverride(parentMethod)
setOverride ==
    /\ derivedMethod # <<>> /\ parentMethod # <<>>
    /\ derivedMethod.overrides = 0
    /\ derivedMethod' = [derivedMethod EXCEPT !.overrides = parentMethod.id]
    /\ scopeDiags' = scopeDiags \o checkVirtualMethodMatch(parentMethod, derivedMethod, TRUE)
    /\ UNCHANGED <<smVars, parseVars, parentMethod, prototypes, outerScope, compilation,
                   returned>>
    /\ OthersUnchanged("methods")

NextOverride == setOverride

SpecOverride == InitOverride /\ [][NextOverride]_vars


\* The checks of an override in the order kind, return type, argument count, then for
\* each argument name, type, direction and presence of a default: for each check the
\* diagnostic it stands for and whether it fails on (parent, derived)
OverrideChecks(parent, derived) ==
    LET n == IF Len(derived.arguments) < Len(parent.arguments) THEN Len(derived.arguments)
             ELSE Len(parent.arguments)
        ofArg(i) ==
            LET da == derived.arguments[i]
                pa == parent.arguments[i]
            IN  << [code |-> "VirtualArgNameMismatch",
                    fails |-> da.name # pa.name /\ "" \notin {da.name, pa.name}],
                   [code |-> "VirtualArgTypeMismatch",
                    fails |-> /\ ~isMatching(da.type, pa.type)
                              /\ "ErrorType" \notin {da.type.kind, pa.type.kind}],
                   [code |-> "VirtualArgDirectionMismatch",
                    fails |-> da.direction # pa.direction],
                   [code |-> IF da.initializer # <<>> THEN "VirtualArgNoParentDefault"
                             ELSE "VirtualArgNoDerivedDefault",
                    fails |-> (da.initializer = <<>>) # (pa.initializer = <<>>)] >>
    IN  << [code |-> "VirtualKindMismatch",
            fails |-> parent.subroutineKind # derived.subroutineKind],
           [code |-> "VirtualReturnMismatch",
            fails |-> /\ ~isMatching(derived.returnType, parent.returnType)
                      /\ ~(/\ derived.returnType.kind = "ClassType"
                           /\ isAssignmentCompatible(parent.returnType, derived.returnType))],
           [code |-> "VirtualArgCountMismatch",
            fails |-> Len(derived.arguments) # Len(parent.arguments)] >> \o
        [k \in 1..(4 * n) |-> ofArg(((k - 1) \div 4) + 1)[((k - 1) % 4) + 1]]

\* The codes of the diagnostics for the first failing check, if any
FirstFailing(checks) ==
    LET failing == SelectSeq(checks, LAMBDA c : c.fails)
    IN  IF failing = <<>> THEN <<>> ELSE <<failing[1].code>>

Codes(ds) == [i \in 1..Len(ds) |-> ds[i].code]

EitherReturnIsError ==
    "ErrorType" \in {parentMethod.returnType.kind, derivedMethod.returnType.kind}

\* C17 as stated: once setOverride has run, the parent is recorded as overridden, and
\* the diagnostics are none when either return type is the error type and otherwise
\* the one of the first failing check, if a check fails.
C17_OverrideDiagnosed ==
    (derivedMethod # <<>> /\ (derivedMethod.overrides # 0 \/ scopeDiags # <<>>)) =>
        /\ derivedMethod.overrides = parentMethod.id
        /\ Codes(scopeDiags) =
               IF EitherReturnIsError THEN <<>>
               ELSE FirstFailing(OverrideChecks(parentMethod, derivedMethod))

\* C17 amended: as C17, but the error type in a return type silences the checks only
\* after the kind check: a kind mismatch is reported whatever the return types are.
C17_OverrideDiagnosedAfterKind ==
    (derivedMethod # <<>> /\ (derivedMethod.overrides # 0 \/ scopeDiags # <<>>)) =>
        /\ derivedMethod.overrides = parentMethod.id
        /\ Codes(scopeDiags) =
               IF parentMethod.subroutineKind # derivedMethod.subroutineKind
               THEN <<"VirtualKindMismatch">>
               ELSE IF EitherReturnIsError THEN <<>>
               ELSE FirstFailing(OverrideChecks(parentMethod, derivedMethod))

\* An override whose first argument lacks the parent's default and whose second argument
\* has another name: recorded, with the one diagnostic of the first argument.
C17_Witness ==
    /\ derivedMethod # <<>> /\ derivedMethod.overrides = parentMethod.id
    /\ Len(derivedMethod.arguments) = 2 /\ Len(parentMethod.arguments) = 2
    /\ derivedMethod.arguments[2].name = "b" /\ parentMethod.arguments[2].name = "a"
    /\ Codes(scopeDiags) = <<"VirtualArgNoDerivedDefault">>

----------------------------------------------------------------------------
(* Method prototypes: getSubroutine, createOutOfBlock, checkMethodMatch (SpecPrototype) *)

MaxGetCalls == 3

\* The index of the class (or modport) a prototype stands in, within the outer scope
ParentIndex == 5

\* A MethodPrototypeSymbol.  subroutine is the std::optional member: <<>> when empty,
\* <<p>> when it holds the pointer p (0 = nullptr, else the id of a SubroutineSymbol).
MethodPrototype(id, flags, parentKind, subroutineKind, returnType, arguments) ==
    [id |-> id, name |-> "f", flags |-> flags, parentKind |-> parentKind,
     subroutineKind |-> subroutineKind, returnType |-> returnType,
     typeSyntax |-> IF subroutineKind = "Function" THEN Loc(id, 0) ELSE <<>>,
     arguments |-> arguments, location |-> Loc(id, 1), subroutine |-> <<>>]

\* "if (subroutine && *subroutine)": a stored nullptr taken for nothing stored
isComputedNonNull(proto) == proto.subroutine # <<>> /\ proto.subroutine[1] # 0

\* "if (subroutine)": the optional holds a value, which may be nullptr
isComputed(proto) == proto.subroutine # <<>>

\* "da" as it is with no initializer copied into it
keepInitializer(da, pe) == da

\* const_cast<FormalArgumentSymbol*>(da)->setInitializer(*pe)
setInitializer(da, pe) == [da EXCEPT !.initializer = pe]

\* MethodPrototypeSymbol::checkMethodMatch: the diagnostics added; none means "true"
checkMethodMatch(proto, method) ==
    LET protoRetType == proto.returnType
        defRetType == method.returnType
        defArgs == method.arguments
        protoArgs == proto.arguments
        checkArgs[i \in 1..(Len(defArgs) + 1)] ==
            IF i > Len(defArgs) THEN <<>>
            ELSE LET da == defArgs[i]
                     pa == protoArgs[i]
                 IN  IF da.name # pa.name /\ da.name # "" /\ pa.name # ""
                     THEN <<Diagnostic("MethodArgNameMismatch", da.location)>>
                     ELSE IF /\ ~isMatching(da.type, pa.type)
                             /\ da.type.kind # "ErrorType" /\ pa.type.kind # "ErrorType"
                     THEN <<Diagnostic("MethodArgTypeMismatch", da.location)>>
                     ELSE IF da.direction # pa.direction
                     THEN <<Diagnostic("MethodArgDirectionMismatch", da.location)>>
                     ELSE checkArgs[i + 1]
    IN  IF method.subroutineKind # proto.subroutineKind
        THEN <<Diagnostic("MethodKindMismatch", proto.location)>>
        ELSE IF /\ ~isMatching(defRetType, protoRetType)
                /\ defRetType.kind # "ErrorType" /\ protoRetType.kind # "ErrorType"
        THEN <<Diagnostic("MethodReturnMismatch",
                          IF proto.typeSyntax # <<>> THEN proto.typeSyntax
                          ELSE proto.location)>>
        ELSE IF Len(defArgs) # Len(protoArgs)
        THEN <<Diagnostic("MethodArgCountMismatch", method.location)>>
        ELSE checkArgs[1]

\* A child that is there: a node, or a token that is not a default-constructed one.
Present(child) == child.node \/ child.valid

\* isSameExpr: the syntax trees l and r are compared child by child; sameFrom is its
\* loop from child i on.  A child that is no node is read as a token, and an absent
\* one (a null node or an empty token) ends the whole call with "r's is absent too".
RECURSIVE isSameExpr(_, _)
RECURSIVE sameFrom(_, _, _)
sameFrom(l, r, i) ==
    IF i > Len(l.children) THEN TRUE
    ELSE LET ln == l.children[i]
             rn == r.children[i]
         IN  IF ln.node # rn.node THEN FALSE
             ELSE IF ln.node
                  THEN IF ~isSameExpr(ln, rn) THEN FALSE ELSE sameFrom(l, r, i + 1)
                  ELSE IF ~ln.valid THEN ~rn.valid
                  ELSE IF ln.kind # rn.kind \/ ln.text # rn.text THEN FALSE
                  ELSE sameFrom(l, r, i + 1)

isSameExpr(l, r) ==
    IF l.kind # r.kind \/ Len(l.children) # Len(r.children) THEN FALSE
    ELSE sameFrom(l, r, 1)

\* the syntax of a default value that is a simple name
IdentifierName(name) ==
    SyntaxNode("IdentifierName", << Token("Identifier", name, <<>>, DefaultLoc) >>)

\* SubroutineSymbol::createOutOfBlock for the declaration decl found at outOfBlockIndex:
\* the symbol made (with the address id) and the diagnostics added
createOutOfBlock(id, decl, prototype, outOfBlockIndex) ==
    LET fromSyntax == Subroutine(id, decl.subroutineKind, decl.returnType, decl.arguments)
        result == [fromSyntax EXCEPT !.outOfBlockIndex = outOfBlockIndex,
                                     !.flags = prototype.flags]
        mismatch == checkMethodMatch(prototype, result)
        protoArgs == prototype.arguments
        defaults[i \in 1..(Len(result.arguments) + 1)] ==
            IF i > Len(result.arguments) THEN [arguments |-> <<>>, diags |-> <<>>]
            ELSE LET da == result.arguments[i]
                     de == da.initializer
                     pe == protoArgs[i].initializer
                     rest == defaults[i + 1]
                     stop(code) == [arguments |-> SubSeq(result.arguments, i,
                                                         Len(result.arguments)),
                                    diags |-> <<Diagnostic(code, de.sourceRange)>>]
                     go(arg) == [arguments |-> <<arg>> \o rest.arguments,
                                 diags |-> rest.diags]
                 IN  IF de # <<>>
                     THEN IF pe = <<>> THEN stop("MethodArgNoDefault")
                          ELSE IF /\ de.syntax # "" /\ pe.syntax # ""
                                  /\ ~isSameExpr(IdentifierName(de.syntax),
                                                 IdentifierName(pe.syntax))
                          THEN stop("MethodArgDefaultMismatch")
                          ELSE go(da)
                     ELSE IF pe # <<>> THEN go(setInitializer(da, pe))
                     ELSE go(da)
    IN  IF mismatch # <<>> THEN [result |-> result, diags |-> mismatch]
        ELSE IF decl.returnTypeScoped
        THEN [result |-> result,
              diags |-> <<Diagnostic("MethodReturnTypeScoped", result.typeSyntax)>>]
        ELSE [result |-> [result EXCEPT !.arguments = defaults[1].arguments],
              diags |-> defaults[1].diags]

\* SubroutineSymbol::createFromPrototype: the stub made for the prototype
createFromPrototype(id, prototype) ==
    [Subroutine(id, prototype.subroutineKind, prototype.returnType, prototype.arguments)
        EXCEPT !.location = prototype.location, !.typeSyntax = prototype.typeSyntax,
               !.flags = prototype.flags]

\* The SubroutineSymbol with the address id: one made by getSubroutine, or the member
\* of the outer scope
SymbolAt(scope, symbols, id) ==
    IF \E k \in 1..Len(symbols) : symbols[k].id = id
    THEN symbols[CHOOSE k \in 1..Len(symbols) : symbols[k].id = id]
    ELSE scope.member.symbol

\* MethodPrototypeSymbol::getSubroutine on prototypes[i], as a function of the state
\* st = [prototypes, outerScope, compilation, diags]: the state after the call, with
\* the pointer returned in the field result
RECURSIVE getSubroutineOf(_, _)
getSubroutineOf(st, i) ==
    LET proto == st.prototypes[i]
        member == st.outerScope.member
        decl == st.outerScope.decl
        store(s, p) == [s EXCEPT !.prototypes[i].subroutine = <<p>>, !.result = p]
        addDiag(s, code, location) ==
            [s EXCEPT !.diags = Append(@, Diagnostic(code, location))]
        newId(s) == 10 + Len(s.compilation) + 1
        stub(s) == store([s EXCEPT !.compilation =
                                       Append(@, createFromPrototype(newId(s), proto))],
                         newId(s))
        syntax == decl # <<>> /\ decl.kind \in {"FunctionDeclaration", "TaskDeclaration"}
        used == IF syntax THEN [st EXCEPT !.outerScope.decl.used = TRUE] ELSE st
    IN  IF isComputed(proto) THEN [st EXCEPT !.result = proto.subroutine[1]]
        ELSE IF "InterfaceImport" \in proto.flags
        THEN IF proto.parentKind = "Modport" /\ member # <<>>
             THEN IF member.kind \notin {"Subroutine", "MethodPrototype"}
                  THEN stub(addDiag(st, "NotASubroutine", proto.location))
                  ELSE LET found == IF member.kind = "MethodPrototype"
                                    THEN getSubroutineOf(st, member.index)
                                    ELSE [st EXCEPT !.result = member.symbol.id]
                           mismatch ==
                               IF found.result = 0 THEN <<>>
                               ELSE checkMethodMatch(proto,
                                                     SymbolAt(found.outerScope,
                                                              found.compilation,
                                                              found.result))
                       IN  IF mismatch # <<>>
                           THEN store([found EXCEPT !.diags = @ \o mismatch], 0)
                           ELSE store(found, found.result)
             ELSE stub(st)
        ELSE IF "Pure" \in proto.flags
        THEN IF syntax THEN store(addDiag(used, "BodyForPure", decl.location), 0)
             ELSE stub(used)
        ELSE IF ~syntax THEN store(addDiag(used, "NoMemberImplFound", proto.location), 0)
        ELSE LET placed == IF decl.index <= ParentIndex
                           THEN addDiag(used, "MemberDefinitionBeforeClass", decl.location)
                           ELSE used
                 made == createOutOfBlock(newId(placed), decl, proto, decl.index)
             IN  store([placed EXCEPT !.compilation = Append(@, made.result),
                                      !.diags = @ \o made.diags],
                       made.result.id)

\* A call of getSubroutine on prototypes[i]
getSubroutine ==
    \E i \in 1..Len(prototypes) :
        /\ Len(returned) < MaxGetCalls
        /\ LET after == getSubroutineOf([prototypes |-> prototypes, outerScope |-> outerScope,
                                         compilation |-> compilation, diags |-> scopeDiags,
                                         result |-> 0], i)
           IN  /\ prototypes' = after.prototypes
               /\ outerScope' = after.outerScope
               /\ compilation' = after.compilation
               /\ scopeDiags' = after.diags
               /\ returned' = Append(returned, [prototype |-> i, result |-> after.result])
        /\ UNCHANGED <<smVars, parseVars, parentMethod, derivedMethod>>
        /\ OthersUnchanged("methods")


\* Either a prototype of a class with what findOutOfBlockDecl finds for it (nothing, a
\* declaration that is no subroutine, or a function or task declared before or after
\* the class), or a prototype of a modport or an interface with the member the outer
\* scope has under its name (none, a variable, a subroutine, or a prototype).
InitPrototype ==
    /\ SourceIdle
    /\ SemanticsIdleExcept("methods")
    /\ parentMethod = <<>>
    /\ derivedMethod = <<>>
    /\ compilation = <<>>
    /\ returned = <<>>
    /\ scopeDiags = <<>>
    /\ LET int == TypeById(1)
           logic == TypeById(3)
           error == TypeById(21)
           plain == FormalArgument("a", int, "In", <<>>)
           default(syntax, context) ==
               [plain EXCEPT !.initializer = Expression(syntax, context)]
           protoArgs(id) == ArgLists({plain, default("k", "prototype")}, id)
           declArgs == ArgLists({plain, default("k", "definition"),
                                 default("j", "definition"),
                                 [plain EXCEPT !.name = "b"],
                                 [plain EXCEPT !.type = logic]}, 4)
           kinds == {"Function", "Task"}
           decls == {<<>>, [kind |-> "ConstraintDeclaration", used |-> FALSE]} \cup
                    { [kind |-> IF k = "Function" THEN "FunctionDeclaration"
                                ELSE "TaskDeclaration",
                       index |-> ix, used |-> FALSE, subroutineKind |-> k,
                       returnType |-> t, arguments |-> a, returnTypeScoped |-> scoped,
                       location |-> Loc(4, 1)] :
                      k \in kinds, ix \in {ParentIndex - 2, ParentIndex + 3},
                      t \in {int, logic}, a \in declArgs, scoped \in BOOLEAN }
           members == {<<>>, [kind |-> "Variable"]} \cup
                      { [kind |-> "Subroutine", symbol |-> Subroutine(3, k, t, a)] :
                        k \in kinds, t \in {int, logic}, a \in protoArgs(3) } \cup
                      { [kind |-> "MethodPrototype", index |-> 2,
                         symbol |-> MethodPrototype(2, {"InterfaceImport"}, "InstanceBody",
                                                    k, t, a)] :
                        k \in kinds, t \in {int, logic}, a \in protoArgs(2) }
       IN  \/ \E flags \in {{}, {"Pure"}}, k \in kinds, t \in {int, error},
                 a \in protoArgs(1), d \in decls :
                  /\ prototypes = <<MethodPrototype(1, flags, "ClassType", k, t, a)>>
                  /\ outerScope = [member |-> <<>>, decl |-> d]
           \/ \E parentKind \in {"Modport", "InstanceBody"}, k \in kinds, t \in {int, error},
                 a \in protoArgs(1), m \in members :
                  /\ prototypes =
                         <<MethodPrototype(1, {"InterfaceImport"}, parentKind, k, t, a)>> \o
                         (IF m # <<>> /\ m.kind = "MethodPrototype" THEN <<m.symbol>>
                          ELSE <<>>)
                  /\ outerScope = [member |-> m, decl |-> <<>>]

NextPrototype == getSubroutine

SpecPrototype == InitPrototype /\ [][NextPrototype]_vars

\* C18: a call of getSubroutine on a prototype that was asked before returns what the
\* earlier calls returned, a null result included, adds no diagnostic and creates no
\* symbol.
C18_GetSubroutineMemoized ==
    [][ Len(returned') = Len(returned) + 1 =>
            LET call == returned'[Len(returned')] IN
            \A k \in 1..Len(returned) :
                returned[k].prototype = call.prototype =>
                    /\ call.result = returned[k].result
                    /\ scopeDiags' = scopeDiags
                    /\ compilation' = compilation ]_vars

\* A prototype of a class with no body anywhere was asked three times: null each time,
\* and NoMemberImplFound once.
C18_Witness ==
    /\ Len(returned) = 3
    /\ \A k \in 1..3 : returned[k] = [prototype |-> 1, result |-> 0]
    /\ Codes(scopeDiags) = <<"NoMemberImplFound">>
    /\ compilation = <<>>

\* The diagnostics createOutOfBlock adds, those of checkMethodMatch included
OutOfBlockCodes ==
    {"MethodKindMismatch", "MethodReturnMismatch", "MethodArgCountMismatch",
     "MethodArgNameMismatch", "MethodArgTypeMismatch", "MethodArgDirectionMismatch",
     "MethodReturnTypeScoped", "MethodArgNoDefault", "MethodArgDefaultMismatch"}

\* C19: a subroutine made by createOutOfBlock with no diagnostic has, at every argument
\* position, an initializer exactly when the prototype's argument has one, and where
\* the definition declared no default it has the prototype's bound initializer itself.
C19_DefaultsFollowPrototype ==
    \A k \in 1..Len(compilation) :
        LET result == compilation[k]
            proto == prototypes[1]
            decl == outerScope.decl
        IN  (/\ result.outOfBlockIndex # 0
             /\ \A d \in 1..Len(scopeDiags) : scopeDiags[d].code \notin OutOfBlockCodes) =>
                /\ Len(result.arguments) = Len(proto.arguments)
                /\ \A i \in 1..Len(result.arguments) :
                       /\ (result.arguments[i].initializer # <<>>) <=>
                              (proto.arguments[i].initializer # <<>>)
                       /\ decl.arguments[i].initializer = <<>> =>
                              result.arguments[i].initializer = proto.arguments[i].initializer

\* An out-of-block definition "f(a, a = k)" of the prototype "f(a = k, a = k)": made
\* without a diagnostic, its first argument has the default bound in the prototype and
\* its second keeps its own.
C19_Witness ==
    /\ Len(compilation) = 1 /\ compilation[1].outOfBlockIndex # 0
    /\ scopeDiags = <<>>
    /\ Len(compilation[1].arguments) = 2
    /\ outerScope.decl.arguments[1].initializer = <<>>
    /\ outerScope.decl.arguments[2].initializer # <<>>
    /\ prototypes[1].arguments[1].initializer # <<>>
    /\ compilation[1].arguments[1].initializer = prototypes[1].arguments[1].initializer
    /\ compilation[1].arguments[1].initializer.context = "prototype"
    /\ compilation[1].arguments[2].initializer.context = "definition"

----------------------------------------------------------------------------
(* Constant evaluation of the conditional operator (SpecEval).  The evaluator is  *)
(* modelled from the specification of the operator; the expected values of the    *)
(* tests conditionalU, conditionalU2 and conditionalUSame fix the widths, the     *)
(* signedness and the order of the bits.                                          *)

\* The width of an integer literal with no size ("5"): the tests expect 32'sb1xx
IntBits == 32

\* The widest sized literal the model writes
MaxLiteralWidth == 2

LogicValues == {"0", "1", "X", "Z"}

\* A four-state integer: bits has the most significant bit first
SVInt(width, signed, bits) == [width |-> width, signed |-> signed, bits |-> bits]

\* The low w bits of the number n, most significant first
RECURSIVE bitsOf(_, _)
bitsOf(n, w) ==
    IF w = 0 THEN <<>>
    ELSE Append(bitsOf(n \div 2, w - 1), IF n % 2 = 1 THEN "1" ELSE "0")

\* The value of a literal: "5" is a signed integer of IntBits bits, "2'b1x" is unsigned
\* and as wide as it says, "'z" is one bit where its width is self-determined, and
\* a division by zero is X in every bit of its width
literal(l) ==
    IF l.kind = "decimal" THEN SVInt(IntBits, TRUE, bitsOf(l.n, IntBits))
    ELSE IF l.kind = "sized" THEN SVInt(Len(l.bits), FALSE, l.bits)
    ELSE IF l.kind = "unbased" THEN SVInt(1, FALSE, <<l.bit>>)
    ELSE SVInt(IntBits, TRUE, [i \in 1..IntBits |-> "X"])

\* The operand widened to the width and the signedness of the expression: with the
\* sign bit if the expression is signed, with zeros otherwise
extend(v, width, signed) ==
    LET fill == IF signed /\ v.signed THEN v.bits[1] ELSE "0"
    IN  SVInt(width, signed, [i \in 1..(width - v.width) |-> fill] \o v.bits)

\* The condition as one logic value: X if a bit of it is unknown
logic_t(c) ==
    IF \E i \in 1..c.width : c.bits[i] \in {"X", "Z"} THEN "X"
    ELSE IF \E i \in 1..c.width : c.bits[i] = "1" THEN "1"
    ELSE "0"

Max(a, b) == IF a >= b THEN a ELSE b

\* c ? t : f with an unknown condition taken as if it were true
conditionalAsTrue(c, t, f) ==
    LET width == Max(t.width, f.width)
        signed == t.signed /\ f.signed
    IN  IF logic_t(c) = "0" THEN extend(f, width, signed) ELSE extend(t, width, signed)

\* c ? t : f: the branch taken when the condition is known, and the bitwise merge of
\* the two branches when it is not
conditional(c, t, f) ==
    LET width == Max(t.width, f.width)
        signed == t.signed /\ f.signed
        lhs == extend(t, width, signed)
        rhs == extend(f, width, signed)
    IN  IF logic_t(c) = "1" THEN lhs
        ELSE IF logic_t(c) = "0" THEN rhs
        ELSE SVInt(width, signed,
                   [i \in 1..width |-> IF lhs.bits[i] = rhs.bits[i] THEN lhs.bits[i]
                                       ELSE "X"])

\* The literals the model writes for the two branches
BranchLiterals ==
    { [kind |-> "decimal", n |-> n] : n \in {5, 6} } \cup
    { [kind |-> "sized", bits |-> b] :
      b \in UNION { [1..w -> LogicValues] : w \in 1..MaxLiteralWidth } }

\* The conditions: every bit known, or every bit unknown
ConditionLiterals ==
    { [kind |-> "unbased", bit |-> b] : b \in LogicValues } \cup
    { [kind |-> "decimal", n |-> n] : n \in {0, 2} } \cup
    { [kind |-> "divideByZero"] }

InitEval ==
    /\ SourceIdle
    /\ SemanticsIdleExcept("eval")
    /\ \E c \in ConditionLiterals, t \in BranchLiterals, f \in BranchLiterals :
           evalExpr = [c |-> c, t |-> t, f |-> f]
    /\ evalValue = <<>>

\* ScriptSession::eval on "c ? t : f"
eval ==
    /\ evalValue = <<>>
    /\ evalValue' = conditional(literal(evalExpr.c), literal(evalExpr.t), literal(evalExpr.f))
    /\ UNCHANGED <<smVars, parseVars, evalExpr>>
    /\ OthersUnchanged("eval")

NextEval == eval

SpecEval == InitEval /\ [][NextEval]_vars

\* Bit k of v, counted from the least significant bit 0, when v is read at a width of
\* at least its own and at the signedness given
BitAt(v, k, signed) ==
    IF k < v.width THEN v.bits[v.width - k]
    ELSE IF signed /\ v.signed THEN v.bits[1] ELSE "0"

\* C20: when the condition of c ? t : f is unknown, the result has the common width of
\* t and f, each of its bits is the bit that t and f have there if they have the same
\* one and X if they do not, and the result is t when t and f are identical.
C20_UnknownConditionMerges ==
    (evalValue # <<>> /\ logic_t(literal(evalExpr.c)) = "X") =>
        LET t == literal(evalExpr.t)
            f == literal(evalExpr.f)
            signed == t.signed /\ f.signed
        IN  /\ evalValue.width = Max(t.width, f.width)
            /\ Len(evalValue.bits) = evalValue.width
            /\ \A k \in 0..(evalValue.width - 1) :
                   evalValue.bits[evalValue.width - k] =
                       IF BitAt(t, k, signed) = BitAt(f, k, signed)
                       THEN BitAt(t, k, signed) ELSE "X"
            /\ t = f => evalValue = t

\* The test conditionalU: 'z ? 5 : 6 is 32'sb1xx.
C20_Witness ==
    /\ evalExpr = [c |-> [kind |-> "unbased", bit |-> "Z"],
                   t |-> [kind |-> "decimal", n |-> 5],
                   f |-> [kind |-> "decimal", n |-> 6]]
    /\ evalValue = SVInt(IntBits, TRUE,
                         [i \in 1..(IntBits - 3) |-> "0"] \o <<"1", "X", "X">>)

----------------------------------------------------------------------------
(* Wildcard equality l ==? r (SpecWildcard).  The test wildcardEq expects          *)
(* {1'b1 / 1'b0, 4'b1001} ==? 5'b11001 to be 1: the unknown first bit of the left *)
(* operand, facing a known bit of the right one, is left out of the comparison.   *)

\* l ==? r on operands of one width: the bits unknown in either operand are masked
\* out, and the rest decides between 1 and 0
wildcardEqual(l, r) ==
    LET compared == { i \in 1..l.width : /\ l.bits[i] \notin {"X", "Z"}
                                         /\ r.bits[i] \notin {"X", "Z"} }
    IN  SVInt(1, FALSE, << IF \A i \in compared : l.bits[i] = r.bits[i] THEN "1"
                           ELSE "0" >>)

\* The operands of the test wildcardEq, as the concatenation and the literal evaluate
WildcardEqTest ==
    [l |-> [kind |-> "sized", bits |-> <<"X", "1", "0", "0", "1">>],
     r |-> [kind |-> "sized", bits |-> <<"1", "1", "0", "0", "1">>]]

InitWildcard ==
    /\ SourceIdle
    /\ SemanticsIdleExcept("eval")
    /\ \/ evalExpr = WildcardEqTest
       \/ \E w \in 1..MaxLiteralWidth :
              \E l \in [1..w -> LogicValues], r \in [1..w -> LogicValues] :
                  evalExpr = [l |-> [kind |-> "sized", bits |-> l],
                              r |-> [kind |-> "sized", bits |-> r]]
    /\ evalValue = <<>>

\* ScriptSession::eval on "l ==? r"
evalWildcard ==
    /\ evalValue = <<>>
    /\ evalValue' = wildcardEqual(literal(evalExpr.l), literal(evalExpr.r))
    /\ UNCHANGED <<smVars, parseVars, evalExpr>>
    /\ OthersUnchanged("eval")

NextWildcard == evalWildcard

SpecWildcard == InitWildcard /\ [][NextWildcard]_vars

\* C21: l ==? r leaves out the positions where r is X or Z; it is X if l is X or Z at
\* a position that is left in, and otherwise 1 if l and r agree at every position
\* left in and 0 if they do not.
C21_WildcardEquality ==
    evalValue # <<>> =>
        LET l == literal(evalExpr.l)
            r == literal(evalExpr.r)
            compared == { i \in 1..r.width : r.bits[i] \notin {"X", "Z"} }
        IN  evalValue.bits =
                << IF \E i \in compared : l.bits[i] \in {"X", "Z"} THEN "X"
                   ELSE IF \A i \in compared : l.bits[i] = r.bits[i] THEN "1"
                   ELSE "0" >>

----------------------------------------------------------------------------
(* SyntaxPrinter::append with squashNewlines on (SpecAppend) *)

\* The buffer of the printer holds the texts of MaxAppends calls at most
MaxAppends == 2

\* The for loop of append from index i (0-based) on: it has no break, and steps over
\* the character after each line-ending character; the index it stops at
RECURSIVE skipLoop(_, _)
skipLoop(text, i) ==
    IF i >= Len(text) THEN i
    ELSE skipLoop(text, IF IsNewline(text[i + 1]) THEN i + 2 ELSE i + 1)

\* std::string_view::substr(pos): std::out_of_range if pos is beyond the size
substr(text, i) ==
    IF i > Len(text) THEN [threw |-> TRUE, text |-> <<>>]
    ELSE [threw |-> FALSE, text |-> SubSeq(text, i + 1, Len(text))]

\* SyntaxPrinter::append with squashNewlines on: the buffer after the call, and whether
\* substr threw before the buffer was touched
appendSquashed(buffer, text) ==
    LET leading == text # <<>> /\ IsNewline(text[1])
        carriage == leading /\ text[1] = CR
        i1 == IF carriage THEN 1 ELSE 0
        newline == leading /\ i1 < Len(text) /\ text[i1 + 1] = LF
        i2 == IF newline THEN i1 + 1 ELSE i1
        rest == IF leading THEN substr(text, skipLoop(text, i2))
                ELSE [threw |-> FALSE, text |-> text]
        ends == IF buffer = <<>> \/ buffer[Len(buffer)] # LF
                THEN (IF carriage THEN <<CR>> ELSE <<>>) \o (IF newline THEN <<LF>> ELSE <<>>)
                ELSE <<>>
    IN  IF rest.threw THEN [buffer |-> buffer, status |-> "out_of_range"]
        ELSE [buffer |-> buffer \o ends \o rest.text, status |-> "ok"]

AppendChars == {"a", "b", LF, CR}

AppendTexts == UNION { [1..n -> AppendChars] : n \in 0..MaxTextLen }

InitAppend ==
    /\ SourceIdle
    /\ SemanticsIdleExcept("printer")
    /\ printerBuffer = <<>>
    /\ appendArg = <<>>
    /\ appendStatus = "ok"

\* One call printer.append(text) on a printer with squashNewlines set
appendCall ==
    \E text \in AppendTexts :
        /\ appendStatus = "ok"
        /\ Len(printerBuffer) + Len(text) <= MaxAppends * MaxTextLen
        /\ LET after == appendSquashed(printerBuffer, text)
           IN  /\ printerBuffer' = after.buffer
               /\ appendStatus' = after.status
        /\ appendArg' = text
        /\ UNCHANGED <<smVars, parseVars>>
        /\ OthersUnchanged("printer")

NextAppend == appendCall

SpecAppend == InitAppend /\ [][NextAppend]_vars

\* The text after its leading run of line-ending characters
RECURSIVE AfterLineEndings(_)
AfterLineEndings(text) ==
    IF text # <<>> /\ IsNewline(text[1]) THEN AfterLineEndings(Tail(text)) ELSE text

\* C24: a call of append with squashNewlines on does not fail, and the buffer after it
\* is the buffer before it, then line-ending characters only, then every character of
\* the text that follows the leading line endings of the text.
C24_AppendKeepsText ==
    [][ appendArg' # appendArg \/ printerBuffer' # printerBuffer \/ appendStatus' # appendStatus =>
            LET kept == AfterLineEndings(appendArg')
                n == Len(printerBuffer') - Len(kept)
            IN  /\ appendStatus' = "ok"
                /\ n >= Len(printerBuffer)
                /\ SubSeq(printerBuffer', 1, Len(printerBuffer)) = printerBuffer
                /\ SubSeq(printerBuffer', n + 1, Len(printerBuffer')) = kept
                /\ \A k \in (Len(printerBuffer) + 1)..n : IsNewline(printerBuffer'[k]) ]_vars

----------------------------------------------------------------------------
(* SyntaxPrinter::shouldPrint(SourceLocation) over includes and expansions        *)
(* (SpecShouldPrint)                                                              *)

\* A printer with a source manager that expands macros but not includes
MacrosNotIncludes == [printFileFlags EXCEPT !.expandMacros = TRUE, !.expandIncludes = FALSE]

\* The printer asks shouldPrint about the location of a token
shouldPrintCall(t, location) ==
    /\ CanCall(t)
    /\ ret' = [ret EXCEPT ![t] =
                 [NoResult EXCEPT !.op = "shouldPrint", !.arg = location,
                                  !.val = IF shouldPrint(MacrosNotIncludes, location)
                                          THEN 1 ELSE 0]]
    /\ calls' = [calls EXCEPT ![t] = @ - 1]
    /\ UNCHANGED <<semVars, parseVars, smState, pc, frame>>

NextShouldPrint ==
    \E t \in {1} :
        \/ \E inc \in {DefaultLoc} \cup FileLocs(MaxOffset) :
              assignText(t, "f.sv", <<"a", "b">>, inc)
        \/ assignBuffer(t)
        \/ \E orig \in ExistingLocs(MaxOffset), start \in ExistingLocs(MaxOffset) :
              createExpansionLocNamed(t, orig, start, "M")
        \/ \E l \in ExistingLocs(MaxOffset) : shouldPrintCall(t, l)

SpecShouldPrint == InitLoc /\ [][NextShouldPrint]_vars

\* Where the macro whose expansion holds the location was invoked: the location of
\* the outermost expansion, in a file
RECURSIVE InvokedAt(_)
InvokedAt(l) == IF isMacroLoc(l) THEN InvokedAt(getExpansionLoc(l)) ELSE l

\* C22: with a source manager, expandMacros on and expandIncludes off, shouldPrint is
\* false for a location in the expansion of a macro invoked inside an included file.
C22_MacroInIncludeNotPrinted ==
    \A t \in Threads :
        (/\ ret[t].op = "shouldPrint"
         /\ isMacroLoc(ret[t].arg)
         /\ isIncludedFileLoc(InvokedAt(ret[t].arg))) => ret[t].val = 0

----------------------------------------------------------------------------
(* SubroutineSymbol::buildArguments (SpecArguments) *)

\* The longest port list
MaxPorts == 3

\* FunctionPortSyntax: direction "" is no direction keyword, dataType "" is no data type
FunctionPort(direction, dataType, name) ==
    [direction |-> direction, dataType |-> dataType, name |-> name]

PortNames == <<"a", "b", "c", "d">>

PortLists ==
    UNION { { [i \in 1..n |-> FunctionPort(d[i], ty[i], PortNames[i])] :
              d \in [1..n -> {"", "In", "Out", "Ref"}], ty \in [1..n -> {"", "int", "logic"}] } :
            n \in 0..MaxPorts }

InitArguments ==
    /\ SourceIdle
    /\ SemanticsIdleExcept("arguments")
    /\ \E ports \in PortLists, defaultLifetime \in {"Static", "Automatic"} :
           portList = [ports |-> ports, defaultLifetime |-> defaultLifetime]
    /\ buildLocals = [lastType |-> "", lastDirection |-> "In", at |-> 1]
    /\ builtArguments = <<>>
    /\ argDiags = <<>>

\* lastType after a port, with the reset of a typeless port left out
keepLastType(portSyntax, directionSpecified, lastType) ==
    IF portSyntax.dataType # "" THEN portSyntax.dataType ELSE lastType

\* lastType after a port: its data type, nullptr after a typeless port that got logic
nextLastType(portSyntax, directionSpecified, lastType) ==
    IF portSyntax.dataType # "" THEN portSyntax.dataType
    ELSE IF directionSpecified \/ lastType = "" THEN ""
    ELSE lastType

\* One iteration of the loop of buildArguments
buildArgumentsLoop ==
    /\ buildLocals.at <= Len(portList.ports)
    /\ LET portSyntax == portList.ports[buildLocals.at]
           directionSpecified == portSyntax.direction # ""
           direction == IF directionSpecified THEN portSyntax.direction
                        ELSE buildLocals.lastDirection
           lastType == buildLocals.lastType
           type == IF portSyntax.dataType # "" THEN portSyntax.dataType
                   ELSE IF directionSpecified \/ lastType = "" THEN "logic"
                   ELSE lastType
           arg == [name |-> portSyntax.name, direction |-> direction,
                   lifetime |-> portList.defaultLifetime, type |-> type]
       IN  /\ argDiags' = IF directionSpecified /\ direction = "Ref"
                             /\ portList.defaultLifetime = "Static"
                          THEN Append(argDiags, "RefArgAutomaticFunc") ELSE argDiags
           /\ builtArguments' = Append(builtArguments, arg)
           /\ buildLocals' = [lastType |-> nextLastType(portSyntax, directionSpecified, lastType),
                              lastDirection |-> direction,
                              at |-> buildLocals.at + 1]
    /\ UNCHANGED <<smVars, parseVars, portList>>
    /\ OthersUnchanged("arguments")

NextArguments == buildArgumentsLoop

SpecArguments == InitArguments /\ [][NextArguments]_vars

\* The data type an argument at position k can inherit: that of the port before it, or
\* the one that port could inherit if it has neither a type nor a direction; "" is none
RECURSIVE Inheritable(_)
Inheritable(k) ==
    IF k = 1 THEN ""
    ELSE LET previous == portList.ports[k - 1]
         IN  IF previous.dataType # "" THEN previous.dataType
             ELSE IF previous.direction # "" THEN ""
             ELSE Inheritable(k - 1)

\* C23: every argument built has the direction written on its port, or that of the
\* argument before it (input for the first); it has the data type written on its port,
\* or logic if the port has a direction or nothing can be inherited, or else the type
\* of the argument before it; a typeless port with a direction leaves nothing to
\* inherit for the port after it.
C23_ArgumentsInheritLeftToRight ==
    \A k \in 1..Len(builtArguments) :
        LET port == portList.ports[k]
            arg == builtArguments[k]
        IN  /\ arg.direction = IF port.direction # "" THEN port.direction
                               ELSE IF k = 1 THEN "In"
                               ELSE builtArguments[k - 1].direction
            /\ arg.type = IF port.dataType # "" THEN port.dataType
                          ELSE IF port.direction # "" \/ Inheritable(k) = "" THEN "logic"
                          ELSE builtArguments[k - 1].type
            /\ (port.dataType = "" /\ port.direction # "" /\ k = Len(builtArguments)) =>
                   buildLocals.lastType = ""

\* "input int a, output b, c" was built: c is an output, and a logic, not an int.
C23_Witness ==
    /\ portList.ports = <<FunctionPort("In", "int", "a"), FunctionPort("Out", "", "b"),
                          FunctionPort("", "", "c")>>
    /\ Len(builtArguments) = 3
    /\ builtArguments[3].direction = "Out"
    /\ builtArguments[3].type = "logic"

----------------------------------------------------------------------------
(* Concurrent openCached calls on one file whose reads may fail (SpecOpen) *)

\* "do the read", outside any lock, of a file that the environment makes readable or
\* unreadable from one call of readFile to the next
openCachedReadAny(t) ==
    /\ pc[t] = "oc_read"
    /\ \E ok \in BOOLEAN :
           IF ok
           THEN /\ frame' = [frame EXCEPT ![t].text = Append(DiskText(frame[t].path), NUL)]
                /\ Goto(t, "oc_cache_buffer")
           ELSE /\ Goto(t, "oc_cache_null")
                /\ UNCHANGED frame
    /\ UNCHANGED <<semVars, parseVars, bufferEntries, fileData, lookupCache, userFileLookup,
                   unnamedBufferCount, ret, calls, handedOut>>

NextOpen ==
    \E t \in Threads :
        \/ \E path \in {"a.sv", "./a.sv"} : readSource(t, path)
        \/ \E path \in {"a.sv"}, inc \in FileLocs(0) : readHeader(t, path, inc)
        \/ openCachedLookup(t)
        \/ openCachedReadAny(t)
        \/ openCachedFailed(t)
        \/ cacheBuffer(t)

SpecOpen == InitSM /\ [][NextOpen]_vars

\* C25: in every interleaving of openCached calls on one canonical path, createBufferEntry
\* is never given a null FileData, and every valid buffer returned refers to the one
\* FileData the cache holds for the path.
C25_ConcurrentOpenCached ==
    \A t \in Threads :
        /\ pc[t] # "assert_failed"
        /\ Opened(t) => /\ ret[t].path \in DOMAIN lookupCache
                        /\ ret[t].fd = lookupCache[ret[t].path]
                        /\ Entry(ret[t].id).data = ret[t].fd

----------------------------------------------------------------------------
(* Concurrent assignText calls with an empty path (SpecUnnamed).  The increment   *)
(* unnamedBufferCount++ is made before any lock is taken; SpecSM takes it as a    *)
(* read and a write that other threads can come between, SpecUnnamed as one       *)
(* indivisible fetch-and-add, which is what it is if the counter is a std::atomic. *)

\* unnamedBufferCount++ as one indivisible step, and the synthetic name
assignTextFetchAdd(t) ==
    /\ pc[t] = "at_count_read"
    /\ unnamedBufferCount' = unnamedBufferCount + 1
    /\ frame' = [frame EXCEPT ![t].tmp = unnamedBufferCount,
                              ![t].name = "<unnamed_buffer" \o to_string(unnamedBufferCount)
                                          \o ">"]
    /\ Goto(t, "at_assign")
    /\ UNCHANGED <<semVars, parseVars, bufferEntries, fileData, lookupCache, userFileLookup,
                   ret, calls, handedOut>>

NextUnnamed ==
    \E t \in Threads :
        \/ \E text \in {SharedText, <<"q">>} : assignText(t, "", text, DefaultLoc)
        \/ assignTextFetchAdd(t)
        \/ assignBuffer(t)

SpecUnnamed == InitSM /\ [][NextUnnamed]_vars

\* The user buffers that assignText named itself
UnnamedBuffers == { fd \in 1..Len(fileData) : fileData[fd].name \notin {"m.sv", "f.sv", "a.sv", "b.sv"} }

\* C26: the synthetic names of the unnamed buffers are pairwise distinct, and each
\* unnamed buffer has its own entry in userFileLookup.
C26_UnnamedNamesDistinct ==
    \A fd1, fd2 \in UnnamedBuffers :
        /\ fd1 # fd2 => fileData[fd1].name # fileData[fd2].name
        /\ fileData[fd1].name \in DOMAIN userFileLookup
        /\ userFileLookup[fileData[fd1].name] = fd1

----------------------------------------------------------------------------
(* Member lists and the stack of nested module names

   parseMemberList, parseSingleMember, parseMember, parseClassMember and
   parseModule over streams of token kinds. No syntax node is built here: the
   state is the position in the stream, the open activations, and
   Parser::moduleDeclStack. *)

MaxMemberTokens == 3
MaxNestedTokens == 6

\* every kind a member parser tells apart here; CloseParenthesis starts no member
MemberKinds ==
    {"OpenParenthesisStar", "StarCloseParenthesis", "Semicolon", "Identifier",
     "ModuleKeyword", "EndModuleKeyword", "GenerateKeyword", "EndGenerateKeyword",
     "BeginKeyword", "EndKeyword", "IfKeyword", "ClassKeyword", "EndClassKeyword",
     "LocalKeyword", "CloseParenthesis"}

\* the kinds that make nested definitions
NestingKinds == {"ModuleKeyword", "Identifier", "EndModuleKeyword", "GenerateKeyword", "IfKeyword"}

KindsOfLen(kinds, n) == [1..n -> kinds]

MemberStreams ==
    UNION ({ KindsOfLen(MemberKinds, n) : n \in 0..MaxMemberTokens }
           \cup { KindsOfLen(NestingKinds, n) : n \in 0..MaxNestedTokens })

\* peek().kind at position i: past the stream there is only the end of file
kindAt(i) == IF i <= Len(memberTokens) THEN memberTokens[i] ELSE "EndOfFile"

\* consume(): the position after the token at i; the end of file is never passed
advance(i) == IF kindAt(i) = "EndOfFile" THEN i ELSE i + 1

\* expect(kind): consumes the token if it has the kind, fabricates a missing one otherwise
expectKind(i, kind) == IF kindAt(i) = kind THEN advance(i) ELSE i

\* consumeIf(Identifier) as the inside of an attribute or a condition
optionalName(i) == expectKind(i, "Identifier")

\* parseAttributes: one instance for every "(*" at hand; the position after them
RECURSIVE parseAttributes(_)
parseAttributes(i) ==
    IF kindAt(i) = "OpenParenthesisStar"
    THEN parseAttributes(expectKind(optionalName(advance(i)), "StarCloseParenthesis"))
    ELSE i

\* skipToken: the current token becomes skipped trivia
skipToken(i) == advance(i)

\* the qualifier loop of parseClassMember
RECURSIVE memberQualifiers(_)
memberQualifiers(i) ==
    IF kindAt(i) = "LocalKeyword" THEN memberQualifiers(advance(i)) ELSE i

\* What a member parser did up to its return or up to the list it opens.
Returned(result, p, fabricated) ==
    [result |-> result, pos |-> p, fabricated |-> fabricated, endKind |-> "",
     parentKind |-> "", memberParser |-> "", isModule |-> FALSE, name |-> ""]

ListCall(p, endKind, parentKind, memberParser, isModule, name) ==
    [result |-> "list", pos |-> p, fabricated |-> FALSE, endKind |-> endKind,
     parentKind |-> parentKind, memberParser |-> memberParser, isModule |-> isModule,
     name |-> name]

SingleCall(p) ==
    [result |-> "single", pos |-> p, fabricated |-> FALSE, endKind |-> "",
     parentKind |-> "GenerateBlock", memberParser |-> "parseMember", isModule |-> FALSE,
     name |-> ""]

\* parseGenerateBlock: a block after "begin", a single member otherwise
parseGenerateBlock(p) ==
    IF kindAt(p) = "BeginKeyword"
    THEN ListCall(advance(p), "EndKeyword", "GenerateBlock", "parseMember", FALSE, "")
    ELSE SingleCall(p)

\* parseClassDeclaration up to its member list
parseClassDeclaration(p) ==
    ListCall(expectKind(expectKind(advance(p), "Identifier"), "Semicolon"),
             "EndClassKeyword", "ClassDeclaration", "parseClassMember", FALSE, "")

\* parseMember at position p, up to its return or to the list it opens
parseMember(p) ==
    LET attrs == parseAttributes(p)
        kind == kindAt(attrs)
    IN  CASE kind = "Identifier" ->
                 Returned("member", expectKind(advance(attrs), "Semicolon"), FALSE)
          [] kind = "GenerateKeyword" ->
                 ListCall(advance(attrs), "EndGenerateKeyword", "GenerateRegion",
                          "parseMember", FALSE, "")
          [] kind = "BeginKeyword" -> parseGenerateBlock(attrs)
          [] kind = "ModuleKeyword" ->
                 LET named == kindAt(attrs + 1) = "Identifier"
                     header == expectKind(expectKind(advance(attrs), "Identifier"),
                                          "Semicolon")
                 IN  ListCall(header, "EndModuleKeyword", "ModuleDeclaration", "parseMember",
                              TRUE, IF named THEN to_string(attrs + 1) ELSE "")
          [] kind = "IfKeyword" ->
                 parseGenerateBlock(expectKind(optionalName(advance(attrs)),
                                               "CloseParenthesis"))
          [] kind = "ClassKeyword" -> parseClassDeclaration(attrs)
          [] kind = "Semicolon" -> Returned("member", advance(attrs), FALSE)
          [] OTHER ->
                 IF attrs # p THEN Returned("member", attrs, TRUE)
                 ELSE Returned("null", attrs, FALSE)

\* parseClassMember at position p
parseClassMember(p) ==
    LET attrs == parseAttributes(p)
        quals == memberQualifiers(attrs)
        kind == kindAt(quals)
    IN  CASE kind = "Identifier" ->
                 Returned("member", expectKind(advance(quals), "Semicolon"), FALSE)
          [] kind # "Identifier" /\ quals # attrs ->
                 Returned("member", quals, TRUE)
          [] kind = "ClassKeyword" /\ quals = attrs ->
                 parseClassDeclaration(quals)
          [] kind = "Semicolon" /\ quals = attrs ->
                 Returned("member", advance(quals), FALSE)
          [] OTHER ->
                 IF attrs # p THEN Returned("member", quals, TRUE)
                 ELSE Returned("null", quals, FALSE)

Activation(fn, endKind, parentKind, memberParser) ==
    [fn |-> fn, endKind |-> endKind, parentKind |-> parentKind,
     memberParser |-> memberParser, anyLocalModules |-> FALSE,
     depthAtCall |-> Len(moduleDeclStack), pushes |-> 0, named |-> 0]

TopActivation == memberStack[Len(memberStack)]

\* the call of the member parser the innermost activation makes next
parseFunc ==
    IF TopActivation.memberParser = "parseClassMember" THEN parseClassMember(memberPos)
    ELSE parseMember(memberPos)

\* the loop of parseMemberList is over: the mutant that goes on at the end of file
listEndsAtEndKind(kind, endKind) == kind = endKind

\* parseMemberList: the test that ends the loop
listEnds(kind, endKind) == kind = "EndOfFile" \/ kind = endKind

\* parseModule with the test of the caller's flag left out
opensNameSetAlways(parentKind, name, anyLocalModules) ==
    parentKind # "CompilationUnit" /\ name # ""

\* parseModule: whether a name set is pushed for the definition it parses
opensNameSet(parentKind, name, anyLocalModules) ==
    parentKind # "CompilationUnit" /\ name # "" /\ ~anyLocalModules

MemberEvent(event, at) == [event |-> event, at |-> at]

ReturnEvent(activation, depth) ==
    [event |-> "return", fn |-> activation.fn, depthAtCall |-> activation.depthAtCall,
     depthAtReturn |-> depth, pushes |-> activation.pushes, named |-> activation.named]

\* if (anyLocalModules) moduleDeclStack.pop()
popIfAny(activation, decls) ==
    IF activation.anyLocalModules /\ decls # <<>> THEN SubSeq(decls, 1, Len(decls) - 1)
    ELSE decls

\* The member that was parsed goes back to the caller of its parser: every
\* parseSingleMember activation that waited for it returns as well.
RECURSIVE returnMember(_, _, _)
returnMember(activations, decls, log) ==
    IF activations # <<>> /\ activations[Len(activations)].fn = "parseSingleMember"
    THEN LET single == activations[Len(activations)]
             popped == popIfAny(single, decls)
         IN  returnMember(SubSeq(activations, 1, Len(activations) - 1), popped,
                          Append(log, ReturnEvent(single, Len(popped))))
    ELSE [memberStack |-> activations, moduleDeclStack |-> decls, memberLog |-> log]

InitMembers ==
    /\ SourceIdle
    /\ SemanticsIdleExcept("members")
    /\ memberTokens \in MemberStreams
    /\ memberPos = 1
    /\ moduleDeclStack = <<>>
    /\ memberStack = << [fn |-> "parseMemberList", endKind |-> "EndOfFile",
                         parentKind |-> "CompilationUnit", memberParser |-> "parseMember",
                         anyLocalModules |-> FALSE, depthAtCall |-> 0, pushes |-> 0,
                         named |-> 0] >>
    /\ memberLog = <<>>

InMemberList ==
    /\ memberStack # <<>>
    /\ TopActivation.fn = "parseMemberList"
    /\ ~listEnds(kindAt(memberPos), TopActivation.endKind)

\* parseMemberList: the member parser returned a member, which is appended
parseMemberListAppend ==
    /\ InMemberList
    /\ parseFunc.result = "member"
    /\ memberPos' = parseFunc.pos
    /\ memberLog' = Append(memberLog,
                           MemberEvent(IF parseFunc.fabricated THEN "fabricated" ELSE "member",
                                       memberPos))
    /\ UNCHANGED <<memberTokens, memberStack, moduleDeclStack>>
    /\ UNCHANGED <<smVars, parseVars>> /\ OthersUnchanged("members")

\* parseMemberList: the member parser returned null, and one token is skipped
parseMemberListSkipToken ==
    /\ InMemberList
    /\ parseFunc.result = "null"
    /\ memberPos' = skipToken(parseFunc.pos)
    /\ memberLog' = Append(memberLog, MemberEvent("skipped", memberPos))
    /\ UNCHANGED <<memberTokens, memberStack, moduleDeclStack>>
    /\ UNCHANGED <<smVars, parseVars>> /\ OthersUnchanged("members")

\* parseMemberList from its break to its return
parseMemberListReturn ==
    /\ memberStack # <<>>
    /\ TopActivation.fn = "parseMemberList"
    /\ listEnds(kindAt(memberPos), TopActivation.endKind)
    /\ LET popped == popIfAny(TopActivation, moduleDeclStack)
           after == returnMember(SubSeq(memberStack, 1, Len(memberStack) - 1), popped,
                                 Append(memberLog, ReturnEvent(TopActivation, Len(popped))))
       IN  /\ memberPos' = expectKind(memberPos, TopActivation.endKind)
           /\ memberStack' = after.memberStack
           /\ moduleDeclStack' = after.moduleDeclStack
           /\ memberLog' = after.memberLog
    /\ UNCHANGED memberTokens
    /\ UNCHANGED <<smVars, parseVars>> /\ OthersUnchanged("members")

\* parseSingleMember whose parseMember opens no list: it returns the member or null
\* (parseGenerateBlock then fabricates an empty member)
parseSingleMemberReturn ==
    /\ memberStack # <<>>
    /\ TopActivation.fn = "parseSingleMember"
    /\ parseFunc.result \in {"member", "null"}
    /\ LET after == returnMember(memberStack, moduleDeclStack,
                                 Append(memberLog,
                                        MemberEvent(IF parseFunc.result = "null"
                                                    THEN "fabricated" ELSE "member",
                                                    memberPos)))
       IN  /\ memberPos' = parseFunc.pos
           /\ memberStack' = after.memberStack
           /\ moduleDeclStack' = after.moduleDeclStack
           /\ memberLog' = after.memberLog
    /\ UNCHANGED memberTokens
    /\ UNCHANGED <<smVars, parseVars>> /\ OthersUnchanged("members")

MemberParserRuns ==
    /\ memberStack # <<>>
    /\ \/ TopActivation.fn = "parseSingleMember"
       \/ ~listEnds(kindAt(memberPos), TopActivation.endKind)

\* parseMember or parseClassMember up to the parseMemberList call of a generate
\* region, a generate block, a class or (in parseModule) a nested definition
parseMemberListCall ==
    /\ MemberParserRuns
    /\ parseFunc.result = "list"
    /\ LET caller == TopActivation
           call == parseFunc
           named == call.isModule /\ caller.parentKind # "CompilationUnit" /\ call.name # ""
           opens == /\ call.isModule
                    /\ opensNameSet(caller.parentKind, call.name, caller.anyLocalModules)
           pushed == IF opens THEN Append(moduleDeclStack, {}) ELSE moduleDeclStack
           decls == IF named /\ pushed # <<>>
                    THEN [pushed EXCEPT ![Len(pushed)] = @ \cup {call.name}]
                    ELSE pushed
           flagged == [caller EXCEPT !.anyLocalModules = @ \/ opens,
                                     !.pushes = @ + (IF opens THEN 1 ELSE 0),
                                     !.named = @ + (IF named THEN 1 ELSE 0)]
       IN  /\ moduleDeclStack' = decls
           /\ memberStack' =
                  Append([memberStack EXCEPT ![Len(memberStack)] = flagged],
                         [fn |-> "parseMemberList", endKind |-> call.endKind,
                          parentKind |-> call.parentKind, memberParser |-> call.memberParser,
                          anyLocalModules |-> FALSE, depthAtCall |-> Len(decls),
                          pushes |-> 0, named |-> 0])
           /\ memberPos' = call.pos
    /\ UNCHANGED <<memberTokens, memberLog>>
    /\ UNCHANGED <<smVars, parseVars>> /\ OthersUnchanged("members")

\* parseMember up to the parseSingleMember call of parseGenerateBlock
parseSingleMemberCall ==
    /\ MemberParserRuns
    /\ parseFunc.result = "single"
    /\ memberStack' = Append(memberStack,
                             Activation("parseSingleMember", "", "GenerateBlock", "parseMember"))
    /\ memberPos' = parseFunc.pos
    /\ UNCHANGED <<memberTokens, moduleDeclStack, memberLog>>
    /\ UNCHANGED <<smVars, parseVars>> /\ OthersUnchanged("members")

NextMembers ==
    \/ parseMemberListAppend
    \/ parseMemberListSkipToken
    \/ parseMemberListReturn
    \/ parseSingleMemberReturn
    \/ parseMemberListCall
    \/ parseSingleMemberCall

\* The parser runs until parseCompilationUnit has its members.
SpecMembers == InitMembers /\ [][NextMembers]_vars /\ WF_vars(NextMembers)

ReturnsLogged == SelectSeq(memberLog, LAMBDA e : e.event = "return")

EventsLogged(event) == SelectSeq(memberLog, LAMBDA e : e.event = event)

\* C27: parseMemberList terminates on every finite token stream that ends with
\* the end of file: every step of a member list either ends an activation or
\* consumes at least one token, when the member parser returns a member (also a
\* fabricated empty member), when it returns null and a token is skipped, and
\* when it opens a nested list; and the outermost list returns in the end.
C27_MemberListTerminates ==
    /\ [][memberStack # <<>> =>
              \/ memberPos' > memberPos
              \/ Len(memberStack') < Len(memberStack)]_vars
    /\ <>(memberStack = <<>>)

C27_Witness ==
    /\ memberStack = <<>>
    /\ EventsLogged("fabricated") # <<>>
    /\ EventsLogged("skipped") # <<>>
    /\ memberPos = Len(memberTokens) + 1

\* C28: whenever parseMemberList or parseSingleMember returns, moduleDeclStack
\* is as deep as it was at the call; an activation pushes a name set at most
\* once, exactly when at least one named nested definition was parsed under
\* it, and the stack holds one set for every open activation that pushed.
C28_ModuleDeclStackBalanced ==
    /\ \A i \in 1..Len(ReturnsLogged) :
           /\ ReturnsLogged[i].depthAtReturn = ReturnsLogged[i].depthAtCall
           /\ ReturnsLogged[i].pushes = IF ReturnsLogged[i].named > 0 THEN 1 ELSE 0
    /\ \A i \in 1..Len(memberStack) :
           /\ memberStack[i].pushes = IF memberStack[i].named > 0 THEN 1 ELSE 0
           /\ memberStack[i].anyLocalModules = (memberStack[i].pushes = 1)
    /\ Len(moduleDeclStack) =
           Cardinality({ i \in 1..Len(memberStack) : memberStack[i].anyLocalModules })

C28_Witness ==
    /\ memberStack = <<>>
    /\ moduleDeclStack = <<>>
    /\ \E i \in 1..Len(ReturnsLogged) :
           /\ ReturnsLogged[i].fn = "parseMemberList"
           /\ ReturnsLogged[i].named = 2
           /\ ReturnsLogged[i].pushes = 1

----------------------------------------------------------------------------
(* isSameExpr over small expression trees (SpecSameExpr) *)

ExprToken(kind, text) == Token(kind, text, <<>>, DefaultLoc)

\* names and a literal
LeafExprs ==
    { IdentifierName(name) : name \in {"a", "b"} }
        \cup { SyntaxNode("IntegerLiteralExpression", << ExprToken("IntegerLiteral", "1") >>) }

ParenthesizedExpression(e) ==
    SyntaxNode("ParenthesizedExpression",
               << ExprToken("OpenParenthesis", "("), e, ExprToken("CloseParenthesis", ")") >>)

\* A node with an optional child in its middle, as the streaming concatenation
\* "{ << sliceSize { inner } }"; sliceSize is a leaf or absent.
StreamingConcatenation(op, sliceSize, inner) ==
    SyntaxNode("StreamingConcatenationExpression",
               << ExprToken("OpenBrace", "{"), ExprToken(op, op), sliceSize, inner,
                  ExprToken("CloseBrace", "}") >>)

ExprUniverse ==
    LeafExprs
        \cup { ParenthesizedExpression(e) : e \in LeafExprs }
        \cup { StreamingConcatenation(op, sliceSize, inner) :
                   op \in {"LeftShift", "RightShift"},
                   sliceSize \in LeafExprs \cup {EmptyToken},
                   inner \in LeafExprs }

InitSameExpr ==
    /\ SourceIdle
    /\ SemanticsIdleExcept("sameExpr")
    /\ sameExprArgs \in ExprUniverse \X ExprUniverse
    /\ sameExprResult = <<>>

\* one call of isSameExpr
isSameExprCall ==
    /\ sameExprResult = <<>>
    /\ sameExprResult' = << isSameExpr(sameExprArgs[1], sameExprArgs[2]) >>
    /\ UNCHANGED sameExprArgs
    /\ UNCHANGED <<smVars, parseVars>> /\ OthersUnchanged("sameExpr")

NextSameExpr == isSameExprCall

SpecSameExpr == InitSameExpr /\ [][NextSameExpr]_vars

\* Two trees identical in shape and content: same kind and child count at every node,
\* and at every position both children absent, or both tokens of one kind and text,
\* or both nodes that are identical in turn.
RECURSIVE IdenticalTrees(_, _)
IdenticalTrees(l, r) ==
    /\ l.kind = r.kind
    /\ Len(l.children) = Len(r.children)
    /\ \A i \in 1..Len(l.children) :
           LET lc == l.children[i]
               rc == r.children[i]
           IN  IF ~Present(lc) \/ ~Present(rc) THEN ~Present(lc) /\ ~Present(rc)
               ELSE IF lc.node \/ rc.node THEN lc.node /\ rc.node /\ IdenticalTrees(lc, rc)
               ELSE lc.kind = rc.kind /\ lc.text = rc.text

\* C29: isSameExpr(l, r) is true exactly when l and r are identical in shape and
\* content; a difference at any child position, also after an absent child, makes
\* it false.
C29_SameExprIffIdentical ==
    sameExprResult # <<>> =>
        (sameExprResult[1] <=> IdenticalTrees(sameExprArgs[1], sameExprArgs[2]))

----------------------------------------------------------------------------
(* MethodPrototypeSymbol::fromSyntax for a class method prototype, followed by
   getSubroutine on the prototype it made (SpecFromSyntax) *)

MaxProtoQualifiers == 2

ProtoQualifierKinds ==
    {"LocalKeyword", "ProtectedKeyword", "StaticKeyword", "PureKeyword", "VirtualKeyword",
     "ExternKeyword"}

ProtoQualifiers == UNION { [1..n -> ProtoQualifierKinds] : n \in 0..MaxProtoQualifiers }

\* the loop over syntax.qualifiers: visibility and flags after the first n qualifiers
RECURSIVE qualifierLoop(_, _)
qualifierLoop(quals, n) ==
    IF n = 0 THEN [visibility |-> "Public", flags |-> {}]
    ELSE LET sofar == qualifierLoop(quals, n - 1)
             kind == quals[n]
         IN  CASE kind = "LocalKeyword" -> [sofar EXCEPT !.visibility = "Local"]
               [] kind = "ProtectedKeyword" -> [sofar EXCEPT !.visibility = "Protected"]
               [] kind = "StaticKeyword" -> [sofar EXCEPT !.flags = @ \cup {"Static"}]
               [] kind = "PureKeyword" -> [sofar EXCEPT !.flags = @ \cup {"Pure"}]
               [] kind = "VirtualKeyword" -> [sofar EXCEPT !.flags = @ \cup {"Virtual"}]
               [] OTHER -> sofar

\* MethodPrototypeSymbol::fromSyntax(scope, ClassMethodPrototypeSyntax): the symbol it
\* returns, the diagnostics it adds to the scope, and its local "flags" at the return.
\* The symbol is made from the flags as they are after the qualifier loop; the test
\* for a pure method outside an abstract or interface class comes after that and
\* changes the local only.  The arguments are taken as buildArguments made them.
fromSyntax(id, classType, syntax) ==
    LET qualified == qualifierLoop(syntax.qualifiers, Len(syntax.qualifiers))
        flags == IF syntax.name = "new" THEN qualified.flags \cup {"Constructor"}
                 ELSE qualified.flags
        subroutineKind == IF syntax.keyword = "TaskKeyword" THEN "Task" ELSE "Function"
        returnType == IF subroutineKind = "Function" /\ "Constructor" \notin flags
                      THEN syntax.returnType ELSE Type(0, "VoidType", 0)
        made == [MethodPrototype(id, flags, "ClassType", subroutineKind, returnType,
                                 syntax.arguments) EXCEPT !.name = syntax.name]
        result == made @@ [visibility |-> qualified.visibility]
        pureInAbstract == /\ "Pure" \in flags
                          /\ ~classType.isAbstract /\ ~classType.isInterface
    IN  [result |-> result,
         diags |-> IF pureInAbstract THEN << Diagnostic("PureInAbstract", result.location) >>
                   ELSE <<>>,
         flags |-> IF pureInAbstract THEN flags \ {"Pure"} ELSE flags]

InitFromSyntax ==
    /\ SourceIdle
    /\ TypeIdle /\ QualifiersIdle /\ ModuleIdle /\ EvalIdle /\ PrinterIdle
    /\ ArgumentsIdle /\ MembersIdle /\ SameExprIdle
    /\ parentMethod = <<>>
    /\ derivedMethod = <<>>
    /\ prototypes = <<>>
    /\ compilation = <<>>
    /\ returned = <<>>
    /\ scopeDiags = <<>>
    /\ LET int == TypeById(1)
           plain == FormalArgument("a", int, "In", <<>>)
           body(k) == [kind |-> IF k = "Function" THEN "FunctionDeclaration"
                                ELSE "TaskDeclaration",
                       index |-> ParentIndex + 3, used |-> FALSE, subroutineKind |-> k,
                       returnType |-> int, arguments |-> <<plain>>,
                       returnTypeScoped |-> FALSE, location |-> Loc(4, 1)]
       IN  \E quals \in ProtoQualifiers, keyword \in {"FunctionKeyword", "TaskKeyword"},
              name \in {"f", "new"}, isAbstract \in BOOLEAN, isInterface \in BOOLEAN,
              hasBody \in BOOLEAN :
               /\ classMethodSyntax =
                      [classType |-> [isAbstract |-> isAbstract, isInterface |-> isInterface],
                       syntax |-> [qualifiers |-> quals, keyword |-> keyword, name |-> name,
                                   returnType |-> int, arguments |-> <<plain>>]]
               /\ outerScope =
                      [member |-> <<>>,
                       decl |-> IF hasBody
                                THEN body(IF keyword = "TaskKeyword" THEN "Task"
                                          ELSE "Function")
                                ELSE <<>>]

\* the call of fromSyntax that makes the prototype of the class member
fromSyntaxCall ==
    /\ prototypes = <<>>
    /\ LET made == fromSyntax(1, classMethodSyntax.classType, classMethodSyntax.syntax)
       IN  /\ prototypes' = << made.result >>
           /\ scopeDiags' = scopeDiags \o made.diags
    /\ UNCHANGED <<smVars, parseVars, parentMethod, derivedMethod, outerScope, compilation,
                   returned>>
    /\ OthersUnchanged("methods")

NextFromSyntax ==
    \/ fromSyntaxCall
    \/ getSubroutine

SpecFromSyntax == InitFromSyntax /\ [][NextFromSyntax]_vars

DiagCodes(ds) == { ds[i].code : i \in 1..Len(ds) }

\* C30: for a prototype qualified pure in a class that is neither abstract nor an
\* interface class, fromSyntax adds PureInAbstract and returns a symbol without the
\* Pure flag, and getSubroutine then asks for a body: with none it adds
\* NoMemberImplFound and returns null.
C30_PureOutsideAbstractDropped ==
    (/\ prototypes # <<>>
     /\ \E i \in 1..Len(classMethodSyntax.syntax.qualifiers) :
            classMethodSyntax.syntax.qualifiers[i] = "PureKeyword"
     /\ ~classMethodSyntax.classType.isAbstract
     /\ ~classMethodSyntax.classType.isInterface) =>
        /\ "PureInAbstract" \in DiagCodes(scopeDiags)
        /\ "Pure" \notin prototypes[1].flags
        /\ (returned # <<>> /\ outerScope.decl = <<>>) =>
               /\ "NoMemberImplFound" \in DiagCodes(scopeDiags)
               /\ returned[1].result = 0

====
